---- MODULE Spec2Model ----
(***************************************************************************)
(* Havoc / calcharo: the execution tracer (calcharo/core/tracer.py,        *)
(* calcharo/core/models.py) as a state machine.                            *)
(*                                                                         *)
(* The tracer is a tree-walking interpreter.  Its own Python call stack    *)
(* (the nested handler activations) is the variable pystack; the traced    *)
(* program's state lives in the ExecutionContext variables.  A traced      *)
(* program is an AST built from the node constructors below; the sources   *)
(* the model runs are listed under "Sources".                              *)
(***************************************************************************)
EXTENDS Integers, Sequences, FiniteSets, TLC

\* ------------------------------------------------------------------ bounds
MaxSteps == 7        \* largest max_steps a configuration is drawn with (the
                     \*   longest trace of the sources below has 7 steps)
MaxDepth == 2        \* largest max_recursion_depth a configuration is drawn with
MaxAddr  == 2        \* addresses id() may return for a new container, beyond the live ones
MaxCalls == 2        \* trace calls made in one behaviour
MaxClock == 3        \* ticks the clock makes while a trace call is under way
MaxTimeout == 1      \* largest max_execution_time_seconds, in ticks

\* ------------------------------------------------------------------ values
\* Every Python value is a record of one shape, so that any two compare.
\*   t: type tag   v: integer payload   s: string payload   e: elements
IntV(n)    == [t |-> "int",   v |-> n, s |-> "", e |-> <<>>]
BoolV(b)   == [t |-> "bool",  v |-> IF b THEN 1 ELSE 0, s |-> "", e |-> <<>>]
NoneV      == [t |-> "none",  v |-> 0, s |-> "", e |-> <<>>]
StrV(str)  == [t |-> "str",   v |-> 0, s |-> str, e |-> <<>>]
TupleV(es) == [t |-> "tuple", v |-> 0, s |-> "", e |-> es]
\* a reference to a mutable list object living at address a (a = id(obj))
RefV(a)    == [t |-> "list",  v |-> a, s |-> "", e |-> <<>>]
\* a list value copied out of the heap (copy.deepcopy of a list)
ListV(es)  == [t |-> "listcopy", v |-> 0, s |-> "", e |-> es]
\* the traced_function closure made by the FunctionDef named name
FnV(name)  == [t |-> "function", v |-> 0, s |-> name, e |-> <<>>]
\* a builtin of _create_safe_builtins, a range object, a lazy map object
RangeV(n)  == [t |-> "range", v |-> n, s |-> "", e |-> <<>>]

Min2(a, b) == IF a < b THEN a ELSE b
IsTuple(x) == x.t = "tuple"
Truthy(x)  ==
    CASE x.t = "none" -> FALSE
      [] x.t \in {"int", "bool", "range"} -> x.v # 0
      [] x.t = "str" -> x.s # ""
      [] x.t \in {"tuple", "listcopy"} -> Len(x.e) > 0
      [] OTHER -> TRUE

\* --------------------------------------------------------------- AST nodes
Constant(val)            == [k |-> "Constant", value |-> val]
Num(n)                   == Constant(IntV(n))
Name(id)                 == [k |-> "Name", id |-> id]
List(elts)               == [k |-> "List", elts |-> elts]
Tuple(elts)              == [k |-> "Tuple", elts |-> elts]
BinOp(l, op, r)          == [k |-> "BinOp", op |-> op, left |-> l, right |-> r]
Compare(l, op, r)        == [k |-> "Compare", op |-> op, left |-> l, right |-> r]
Subscript(val, idx)      == [k |-> "Subscript", value |-> val, slice |-> idx]
Call(f, args)            == [k |-> "Call", func |-> f, args |-> args]
MethodCall(obj, m, args) == [k |-> "MethodCall", value |-> obj, attr |-> m, args |-> args]

Assign(ln, tgt, val, txt)        == [k |-> "Assign", lineno |-> ln, target |-> tgt, value |-> val, text |-> txt]
AugAssign(ln, tgt, op, val, txt) == [k |-> "AugAssign", lineno |-> ln, target |-> tgt, op |-> op, value |-> val, text |-> txt]
If(ln, test, body, orelse, txt)  == [k |-> "If", lineno |-> ln, test |-> test, body |-> body, orelse |-> orelse, text |-> txt]
While(ln, test, body, txt)       == [k |-> "While", lineno |-> ln, test |-> test, body |-> body, text |-> txt]
FunctionDef(ln, name, args, body) == [k |-> "FunctionDef", lineno |-> ln, name |-> name, args |-> args, body |-> body]
Return(ln, val)                  == [k |-> "Return", lineno |-> ln, value |-> val]
Expr(ln, val)                    == [k |-> "Expr", lineno |-> ln, value |-> val]
AnnAssign(ln, tgt, ann, val, txt) == [k |-> "AnnAssign", lineno |-> ln, target |-> tgt, annotation |-> ann, value |-> val, text |-> txt]
Pass(ln)                         == [k |-> "Pass", lineno |-> ln]
Break(ln)                        == [k |-> "Break", lineno |-> ln]
Continue(ln)                     == [k |-> "Continue", lineno |-> ln]

\* ------------------------------------------------------------ dictionaries
\* A Python dict is a function on the set of its keys.
EmptyDict      == [n \in {} |-> NoneV]
Get(d, n)      == IF n \in DOMAIN d THEN d[n] ELSE NoneV      \* dict.get(n)
Put(d, n, val) == (n :> val) @@ d                              \* d[n] = val

\* ------------------------------------------------------------- the heap
\* heap[a] is the content of the list object whose id() is a.
RECURSIVE DeepCopy(_, _)
DeepCopy(x, h) ==
    CASE x.t = "list"  -> IF x.v \in DOMAIN h
                          THEN ListV([i \in 1..Len(h[x.v]) |-> DeepCopy(h[x.v][i], h)])
                          ELSE ListV(<<>>)
      [] x.t = "tuple" -> TupleV([i \in 1..Len(x.e) |-> DeepCopy(x.e[i], h)])
      [] OTHER         -> x

DeepCopyDict(d, h) == [n \in DOMAIN d |-> DeepCopy(d[n], h)]

\* Python's == on two values: numbers by value, containers by content.
PyEq(x, y, h) ==
    IF x.t \in {"int", "bool"} /\ y.t \in {"int", "bool"}
    THEN x.v = y.v
    ELSE DeepCopy(x, h) = DeepCopy(y, h)

\* ------------------------------------------------- evaluation of expressions
\* An exception raised while evaluating is carried as a value of type
\* "exception"; s names the Python exception class.
ExcV(cls)  == [t |-> "exception", v |-> 0, s |-> cls, e |-> <<>>]
IsExc(x)   == x.t = "exception"

SafeBuiltins == {"print", "len", "range", "map"}

\* _apply_operator: lines 625-651
ApplyOperator(op, l, r) ==
    IF l.t = "none" \/ r.t = "none" THEN NoneV
    ELSE IF l.t \in {"int", "bool"} /\ r.t \in {"int", "bool"}
    THEN CASE op = "Add"  -> IntV(l.v + r.v)
           [] op = "Sub"  -> IntV(l.v - r.v)
           [] op = "Mult" -> IntV(l.v * r.v)
           [] op = "Mod"  -> IF r.v # 0 THEN IntV(l.v % r.v) ELSE IntV(0)
           [] OTHER       -> NoneV
    ELSE NoneV                         \* TypeError inside op_func: "Math is hard"

\* _apply_comparison: lines 670-691 (the membership test over a lazy map of a
\* traced function is the InMap activation, not this operator)
ApplyComparison(op, l, r, h) ==
    CASE op = "Eq"    -> PyEq(l, r, h)
      [] op = "NotEq" -> ~PyEq(l, r, h)
      [] op \in {"Lt", "LtE", "Gt", "GtE"} ->
            IF l.t \in {"int", "bool"} /\ r.t \in {"int", "bool"}
            THEN CASE op = "Lt"  -> l.v < r.v
                   [] op = "LtE" -> l.v <= r.v
                   [] op = "Gt"  -> l.v > r.v
                   [] op = "GtE" -> l.v >= r.v
            ELSE FALSE                 \* TypeError swallowed by the bare except
      [] OTHER -> FALSE

\* _eval_expression (lines 439-555) and the builtin arm of _handle_call (lines
\* 571-585) on the call-free expressions: names, constants, tuples, operators,
\* comparisons, subscripts, len() and range().
RECURSIVE EvalExpression(_, _, _)
EvalExpression(node, ns, h) ==
    CASE node.k = "Constant" -> node.value
      [] node.k = "Name"     -> Get(ns, node.id)
      [] node.k = "Tuple"    ->
            LET es == [i \in 1..Len(node.elts) |-> EvalExpression(node.elts[i], ns, h)]
                bad == {i \in 1..Len(es) : IsExc(es[i])}
            IN  IF bad = {} THEN TupleV(es) ELSE es[CHOOSE i \in bad : \A j \in bad : i <= j]
      [] node.k = "BinOp"    ->
            LET l == EvalExpression(node.left, ns, h)
                r == EvalExpression(node.right, ns, h)
            IN  IF IsExc(l) THEN l ELSE IF IsExc(r) THEN r ELSE ApplyOperator(node.op, l, r)
      [] node.k = "Compare"  ->
            LET l == EvalExpression(node.left, ns, h)
                r == EvalExpression(node.right, ns, h)
            IN  IF IsExc(l) THEN l ELSE IF IsExc(r) THEN r
                ELSE BoolV(ApplyComparison(node.op, l, r, h))
      [] node.k = "Subscript" ->
            LET obj == EvalExpression(node.value, ns, h)
                idx == EvalExpression(node.slice, ns, h)
            IN  IF IsExc(obj) THEN obj ELSE IF IsExc(idx) THEN idx
                ELSE IF obj.t = "list" /\ idx.t \in {"int", "bool"} /\ obj.v \in DOMAIN h
                        /\ idx.v >= -Len(h[obj.v]) /\ idx.v < Len(h[obj.v])
                THEN h[obj.v][(IF idx.v < 0 THEN idx.v + Len(h[obj.v]) ELSE idx.v) + 1]
                ELSE NoneV             \* KeyError/IndexError/TypeError: "fail silently"
      [] node.k = "Call"     ->
            LET args == [i \in 1..Len(node.args) |-> EvalExpression(node.args[i], ns, h)]
                bad  == {i \in 1..Len(args) : IsExc(args[i])}
            IN  IF bad # {} THEN args[CHOOSE i \in bad : \A j \in bad : i <= j]
                ELSE IF node.func = "len" /\ Len(args) = 1
                THEN CASE args[1].t = "list"  -> IntV(Len(h[args[1].v]))
                       [] args[1].t = "tuple" -> IntV(Len(args[1].e))
                       [] OTHER               -> ExcV("TypeError")
                ELSE IF node.func = "range" /\ Len(args) = 1
                THEN IF args[1].t = "int" THEN RangeV(args[1].v) ELSE ExcV("TypeError")
                ELSE IF node.func \in SafeBuiltins THEN ExcV("TypeError")
                ELSE NoneV             \* not a builtin, not callable: "return None"
      [] OTHER -> NoneV                \* "When all else fails"

\* ----------------------------------------------------------------- Sources
\* The source texts trace() is called with, as ast.parse returns them.
\*
\*   1  x = 0                      2  a = [1]            3  def f(n):
\*      while x < 2:                  b = a                     if n <= 0:
\*          x += 1                    b.append(2)                   return 0
\*                                    a[0] = 9                  return f(n - 1)
\*                                                          y = f(1)
\*   4  def g(x):                  5  def f(x):
\*          return len(x)                 return x
\*      y = 3 in map(g, [1])          3 in map(f, [1, 2, 3])
\*      z = 1
SrcLoop ==
    << Assign(1, Name("x"), Num(0), "x = 0"),
       While(2, Compare(Name("x"), "Lt", Num(2)),
             << AugAssign(3, Name("x"), "Add", Num(1), "x += 1") >>, "x < 2") >>
SrcLists ==
    << Assign(1, Name("a"), List(<<Num(1)>>), "a = [1]"),
       Assign(2, Name("b"), Name("a"), "b = a"),
       Expr(3, MethodCall(Name("b"), "append", <<Num(2)>>)),
       Assign(4, Subscript(Name("a"), Num(0)), Num(9), "a[0] = 9") >>
SrcRecursion ==
    << FunctionDef(1, "f", <<"n">>,
         << If(2, Compare(Name("n"), "LtE", Num(0)), << Return(3, Num(0)) >>, <<>>, "n <= 0"),
            Return(4, Call("f", << BinOp(Name("n"), "Sub", Num(1)) >>)) >>),
       Assign(5, Name("y"), Call("f", <<Num(1)>>), "y = f(1)") >>
SrcInMapFault ==
    << FunctionDef(1, "g", <<"x">>, << Return(2, Call("len", <<Name("x")>>)) >>),
       Assign(3, Name("y"), Compare(Num(3), "In", Call("map", <<Name("g"), List(<<Num(1)>>)>>)),
              "y = 3 in map(g, [1])"),
       Assign(4, Name("z"), Num(1), "z = 1") >>
SrcInMapBudget ==
    << FunctionDef(1, "f", <<"x">>, << Return(2, Name("x")) >>),
       Expr(3, Compare(Num(3), "In", Call("map", <<Name("f"), List(<<Num(1), Num(2), Num(3)>>)>>))) >>

\*   6  print("a", 1)              7  x: int = 5         8  x = 0
\*      x = 2                         y = x                 while x < 2:
\*      print(x, "b")                                           x += 1
\*                                                              break
\*                                                              x += 10
\*   9  x = 0                     10  x = 1             11  x = 1
\*      while x < 2:                  pass                  (1, 2)
\*          x += 1                                          y = 2
\*          continue
\*          x += 10
SrcPrint ==
    << Expr(1, Call("print", << Constant(StrV("a")), Num(1) >>)),
       Assign(2, Name("x"), Num(2), "x = 2"),
       Expr(3, Call("print", << Name("x"), Constant(StrV("b")) >>)) >>
SrcAnnAssign ==
    << AnnAssign(1, Name("x"), Name("int"), Num(5), "x: int = 5"),
       Assign(2, Name("y"), Name("x"), "y = x") >>
SrcBreak ==
    << Assign(1, Name("x"), Num(0), "x = 0"),
       While(2, Compare(Name("x"), "Lt", Num(2)),
             << AugAssign(3, Name("x"), "Add", Num(1), "x += 1"),
                Break(4),
                AugAssign(5, Name("x"), "Add", Num(10), "x += 10") >>, "x < 2") >>
SrcContinue ==
    << Assign(1, Name("x"), Num(0), "x = 0"),
       While(2, Compare(Name("x"), "Lt", Num(2)),
             << AugAssign(3, Name("x"), "Add", Num(1), "x += 1"),
                Continue(4),
                AugAssign(5, Name("x"), "Add", Num(10), "x += 10") >>, "x < 2") >>
SrcPass ==
    << Assign(1, Name("x"), Num(1), "x = 1"),
       Pass(2) >>
SrcTuple ==
    << Assign(1, Name("x"), Num(1), "x = 1"),
       Expr(2, Tuple(<< Num(1), Num(2) >>)),
       Assign(3, Name("y"), Num(2), "y = 2") >>

\* Source texts character by character, for the input validation of trace():
\* every text of at most MaxCodeLen characters over Chars is a source 12, 13, ...
MaxCodeLen == 2
Chars == << " ", "\n", "x", "(" >>

RECURSIVE CodesOfLen(_)
CodesOfLen(n) ==
    IF n = 0 THEN << <<>> >>
    ELSE LET shorter == CodesOfLen(n - 1)
         IN  [i \in 1..(Len(shorter) * Len(Chars)) |->
                 Append(shorter[((i - 1) \div Len(Chars)) + 1],
                        Chars[((i - 1) % Len(Chars)) + 1])]
RECURSIVE CodesUpTo(_)
CodesUpTo(n) == IF n = 0 THEN CodesOfLen(0) ELSE CodesUpTo(n - 1) \o CodesOfLen(n)
CodeTexts == CodesUpTo(MaxCodeLen)

\* str.isspace on the characters of Chars
IsSpace(ch) == ch \in {" ", "\n"}
\* str.strip()
RECURSIVE LStrip(_)
LStrip(code) == IF code # <<>> /\ IsSpace(Head(code)) THEN LStrip(Tail(code)) ELSE code
RECURSIVE RStrip(_)
RStrip(code) ==
    IF code # <<>> /\ IsSpace(code[Len(code)])
    THEN RStrip(SubSeq(code, 1, Len(code) - 1)) ELSE code
Strip(code) == RStrip(LStrip(code))

\* sep.join(strs)
RECURSIVE Join(_, _)
Join(sep, strs) ==
    IF strs = <<>> THEN ""
    ELSE IF Len(strs) = 1 THEN strs[1]
    ELSE strs[1] \o sep \o Join(sep, Tail(strs))

\* code.split('\n')
RECURSIVE SplitLines(_)
SplitLines(code) ==
    LET at == {i \in 1..Len(code) : code[i] = "\n"}
    IN  IF at = {} THEN << code >>
        ELSE LET i == CHOOSE x \in at : \A y \in at : x <= y
             IN  << SubSeq(code, 1, i - 1) >> \o SplitLines(SubSeq(code, i + 1, Len(code)))

\* ast.parse (tracer.py 275) on a text over Chars.  A line that is blank is
\* no statement; a line made of the letter x (and blanks after it) is the
\* expression statement of that name; any other line (an opening bracket, an
\* indented name, two names) is a SyntaxError.
RECURSIVE ParseLines(_, _)
ParseLines(code_lines, ln) ==
    IF ln > Len(code_lines) THEN <<>>
    ELSE (IF RStrip(code_lines[ln]) = <<>> THEN <<>>
          ELSE << Expr(ln, Name(Join("", RStrip(code_lines[ln])))) >>)
         \o ParseLines(code_lines, ln + 1)
AstParse(code) ==
    LET code_lines == SplitLines(code)
        wrong == {i \in 1..Len(code_lines) :
                    \E j \in 1..Len(RStrip(code_lines[i])) : RStrip(code_lines[i])[j] # "x"}
    IN  [ok |-> wrong = {}, body |-> IF wrong = {} THEN ParseLines(code_lines, 1) ELSE <<>>]

SourceIds == 1..5
ProgramIds == 6..11
CodeIds == {11 + i : i \in 1..Len(CodeTexts)}
Code(i) == CodeTexts[i - 11]
Source(i) ==
    CASE i = 1 -> SrcLoop
      [] i = 2 -> SrcLists
      [] i = 3 -> SrcRecursion
      [] i = 4 -> SrcInMapFault
      [] i = 5 -> SrcInMapBudget
      [] i = 6 -> SrcPrint
      [] i = 7 -> SrcAnnAssign
      [] i = 8 -> SrcBreak
      [] i = 9 -> SrcContinue
      [] i = 10 -> SrcPass
      [] i = 11 -> SrcTuple
      [] OTHER -> AstParse(Code(i)).body

\* ------------------------------------------------------------------- state
Threads == {1, 2}
\* the stream objects sys.stdout / sys.stderr may name
OrigStdout   == [kind |-> "stdout", owner |-> 0]
OrigStderr   == [kind |-> "stderr", owner |-> 0]
StringIO(t)  == [kind |-> "StringIO", owner |-> t]

VARIABLES
    sys_stdout,     \* the process-wide sys.stdout
    sys_stderr,     \* the process-wide sys.stderr
    env,            \* per thread: where its trace() call stands, and the locals of
                    \*   _execution_environment (old_stdout, old_stderr)
    config,         \* ExecutionTracer.config (TracerConfig) of thread 1's tracer
    steps,          \* ExecutionTracer.steps of thread 1's tracer
    source,         \* the code argument of the running trace() call (index of Source)
    context,        \* the ExecutionContext of the running trace() call
    heap,           \* the Python objects the traced program made: id -> list content
    pystack,        \* the interpreter's own activations (handler frames), deepest last
    ret,            \* a value on its way up: a call's value or a statement's result
    exc,            \* the exception propagating out of _execute_tree ("" if none)
    results,        \* what each finished trace() call of thread 1 gave its caller
    execution_stopped, \* ExecutionTracer._execution_stopped
    start_time,     \* ExecutionTracer._start_time
    monitor,        \* the watchdog thread (_monitor_timeout): its position
    now             \* the clock: time.time() and datetime.now(), in ticks

interp == << config, steps, source, context, heap, pystack, ret, exc, results >>
watchdog == << execution_stopped, start_time, monitor, now >>

\* the visualisation layer (calcharo/adapters), which works on finished step lists
VARIABLES
    execution_steps, \* the step list handed to an adapter or to the registry
    adapter,         \* the adapter object at work: its fields
    registry,        \* the AdapterRegistry call at work: its locals
    call             \* which adapter-layer call runs, its argument and how far it is

vars == << sys_stdout, sys_stderr, env, config, steps, source, context, heap,
           pystack, ret, exc, results, execution_stopped, start_time, monitor, now,
           execution_steps, adapter, registry, call >>

viz == << execution_steps, adapter, registry, call >>
tracer == << sys_stdout, sys_stderr, env, interp, watchdog >>
\* no adapter-layer call is running
NoViz == execution_steps = <<>> /\ adapter = <<>> /\ registry = <<>> /\ call = <<>>

\* ------------------------------------------------------ ExecutionContext
\* models.py 179-196, as trace() constructs it (tracer.py 285-289)
NewContext(cfg) ==
    [ current_line |-> 0, step_count |-> 0, call_stack |-> <<>>,
      global_namespace |-> EmptyDict, local_namespace |-> EmptyDict,
      local_is_global |-> FALSE,      \* local_namespace is the global dict object
      heap_tracker |-> [a \in {} |-> NoneV], stdout_buffer |-> <<>>,
      max_recursion_depth |-> cfg.max_recursion_depth, max_steps |-> cfg.max_steps ]

\* "namespace = context.local_namespace if context.local_namespace else ..."
\* (the local dict always holds the dunder names, so it is never empty)
NamespaceOf(c) == c.local_namespace

\* namespace[name] = value, on the dict object local_namespace names
BindName(c, name, val) ==
    IF c.local_is_global
    THEN [c EXCEPT !.local_namespace = Put(@, name, val),
                   !.global_namespace = Put(@, name, val)]
    ELSE [c EXCEPT !.local_namespace = Put(@, name, val)]

\* HeapObject (models.py 43-57): __post_init__ deep-copies the value.  The
\* size field (obj.__sizeof__()) is left out.
HeapObject(a, h) ==
    [ object_id |-> a, type_name |-> "list", value |-> DeepCopy(RefV(a), h),
      references |-> {h[a][i].v : i \in {j \in 1..Len(h[a]) : h[a][j].t = "list"}} ]

\* ExecutionContext.track_heap_object (models.py 208-236)
TrackHeapObject(c, h, obj) ==
    IF obj.v \in DOMAIN c.heap_tracker THEN c
    ELSE [c EXCEPT !.heap_tracker = (obj.v :> HeapObject(obj.v, h)) @@ @]

\* ExecutionContext.push_frame (models.py 198-202): the depth test
PushFrameOverflowOffByOne(c) == Len(c.call_stack) > c.max_recursion_depth
PushFrameOverflow(c) == Len(c.call_stack) >= c.max_recursion_depth

\* ExecutionContext.create_step (models.py 247-251): the budget test, made
\* after step_count was incremented
StepBudgetExceededOffByOne(c) == c.step_count > c.max_steps + 1
StepBudgetExceeded(c) == c.step_count > c.max_steps

\* ExecutionStep.__post_init__ (models.py 132-136): the snapshot owns a deep
\* copy of the bindings
PostInitNoCopy(d, h) == d
PostInitVariablesState(d, h) == DeepCopyDict(d, h)

\* ExecutionContext.create_step (models.py 238-284).  The result says whether
\* the budget fault was raised, and gives the context as create_step left it.
CreateStep(c, h, step_type, source_code, expression_value, condition_result) ==
    LET c1 == [c EXCEPT !.step_count = @ + 1]
        current_vars == c.local_namespace @@ c.global_namespace
        shown   == {n \in DOMAIN current_vars : current_vars[n].t \notin {"function", "module"}}
        filtered_vars == [n \in shown |-> current_vars[n]]
        ids     == {filtered_vars[n].v : n \in {m \in shown : filtered_vars[m].t = "list"}}
        tracker == [a \in DOMAIN c.heap_tracker \cup ids |->
                      IF a \in DOMAIN c.heap_tracker THEN c.heap_tracker[a]
                      ELSE HeapObject(a, h)]
        c2 == [c1 EXCEPT !.heap_tracker = tracker]
    IN  IF StepBudgetExceeded(c1)
        THEN [raised |-> TRUE, context |-> c1, step |-> NoneV]
        ELSE [raised |-> FALSE, context |-> c2,
              step |-> [ step_number |-> c1.step_count,
                         timestamp |-> now,
                         line_number |-> c.current_line,
                         step_type |-> step_type,
                         source_code |-> source_code,
                         variables_state |-> PostInitVariablesState(filtered_vars, h),
                         stdout_snapshot |-> c.stdout_buffer,
                         call_stack |-> c.call_stack,
                         heap_state |-> [a \in ids |-> tracker[a]],
                         expression_value |-> expression_value,
                         condition_result |-> condition_result ]]

\* ------------------------------------------------- the interpreter's stack
NoRet        == [kind |-> "none", v |-> NoneV]
CallValue(x) == [kind |-> "call", v |-> x]     \* the value a call expression gave
StmtResult(x) == [kind |-> "stmt", v |-> x]    \* what _execute_node(stmt) returned

Top     == pystack[Len(pystack)]
Below   == SubSeq(pystack, 1, Len(pystack) - 1)
Running == env[1].pc = "yield" /\ pystack # <<>>
AtStmt  == Running /\ Top.k \in {"Module", "If", "While", "Func"}
                   /\ Top.pc \in 1..Len(Top.body)
Stmt    == Top.body[Top.pc]
SetPc(n) == [pystack EXCEPT ![Len(pystack)].pc = n]

\* result[0] == 'return' (and 'break', 'continue') on a tuple result
IsTagged(r, tag) == IsTuple(r) /\ Len(r.e) > 0 /\ r.e[1] = StrV(tag)

\* the FunctionDef node a traced_function closure holds
FuncDef(name) ==
    LET body == Source(source)
        at == {i \in 1..Len(body) : body[i].k = "FunctionDef" /\ body[i].name = name}
    IN  body[CHOOSE i \in at : \A j \in at : i <= j]

\* `needle in map(f, [...])`: the comparison whose right operand is a lazy map
IsInMap(e) == e.k = "Compare" /\ e.op = "In" /\ e.right.k = "Call" /\ e.right.func = "map"
\* a call of a traced (user-defined) function: _handle_call, lines 587-591
IsTracedCall(e, c) ==
    /\ e.k = "Call" /\ e.func \notin SafeBuiltins
    /\ Get(NamespaceOf(c), e.func).t = "function"
\* a call of the intercepted print: _handle_call, lines 575-585
IsPrintCall(e) == e.k = "Call" /\ e.func = "print"
\* expressions whose evaluation runs traced code or makes a step of its own,
\* so that other activations come between the statement's start and its end
Suspends(e, c) == IsInMap(e) \/ IsTracedCall(e, c) \/ IsPrintCall(e)

\* An activation finishes normally: the context, heap and step list it leaves,
\* the value going up, and the stack.
Finish(c, h, st, r, stack) ==
    /\ context' = c /\ heap' = h /\ steps' = st /\ ret' = r /\ pystack' = stack
    /\ UNCHANGED << exc, env >>

\* An exception leaves the running activation.  It unwinds to the bare
\* "except:" of _apply_comparison (tracer.py 687-690) if a membership test
\* over a lazy map is in progress, which then gives False; otherwise to
\* trace() (tracer.py 292-302), through the finally clause of
\* _execution_environment (FinallyOnException: where the thread goes on).
FinallyIsSkipped == "exit"
FinallyOnException == "restore_stdout"

Throw(c, h, st, cls) ==
    /\ context' = c /\ heap' = h /\ steps' = st
    /\ LET catchers == {i \in 1..Len(pystack) : pystack[i].k = "InMap"}
       IN  IF catchers # {}
           THEN LET i == CHOOSE x \in catchers : \A y \in catchers : y <= x
                IN  /\ pystack' = SubSeq(pystack, 1, i - 1)
                    /\ ret' = CallValue(BoolV(FALSE))
                    /\ UNCHANGED << exc, env >>
           ELSE /\ pystack' = <<>>
                /\ ret' = NoRet
                /\ exc' = cls
                /\ env' = [env EXCEPT ![1].pc = FinallyOnException]

\* ------------------------------------------------------- the trace() call
NoStream == [kind |-> "unset", owner |-> 0]
IdleEnv  == [pc |-> "idle", old_stdout |-> NoStream, old_stderr |-> NoStream,
             capture_stdout |-> TRUE, capture_stderr |-> TRUE,
             fresh |-> TRUE]      \* the call is the first one made on its tracer

\* ExecutionTracer.trace, lines 263-289: the call passes validation and
\* parsing, and a fresh ExecutionContext is made.  A later call is made on
\* the same tracer (fresh = FALSE), or it repeats the last source on a new
\* tracer with the same configuration (execute_and_trace, lines 736-740).
\* What earlier calls returned is still held by their caller, so the objects
\* they made stay alive.
Trace(i, fresh) ==
    /\ \/ env[1].pc = "idle" /\ results = <<>> /\ fresh
       \/ env[1].pc = "done" /\ Len(results) < MaxCalls /\ (fresh => i = source)
    /\ source' = i
    /\ steps' = IF fresh THEN <<>> ELSE steps
    /\ context' = NewContext(config)
    /\ pystack' = <<>> /\ ret' = NoRet /\ exc' = ""
    /\ env' = [env EXCEPT ![1] = [IdleEnv EXCEPT !.pc = "start_timer",
                                     !.capture_stdout = config.capture_stdout,
                                     !.capture_stderr = config.capture_stderr,
                                     !.fresh = fresh]]
    /\ UNCHANGED << config, heap, results, sys_stdout, sys_stderr, watchdog, viz >>

\* _execution_environment, lines 312-320: the watchdog thread is started
EnvStartTimer(t) ==
    /\ env[t].pc = "start_timer"
    /\ env' = [env EXCEPT ![t].pc = "save_stdout"]
    /\ IF t = 1 /\ config.max_execution_time_seconds > 0
       THEN /\ start_time' = now /\ execution_stopped' = FALSE /\ monitor' = "polling"
            /\ UNCHANGED now
       ELSE UNCHANGED watchdog
    /\ UNCHANGED << sys_stdout, sys_stderr, interp, viz >>

\* line 323: old_stdout = sys.stdout
EnvSaveStdout(t) ==
    /\ env[t].pc = "save_stdout"
    /\ env' = [env EXCEPT ![t].pc = "save_stderr", ![t].old_stdout = sys_stdout]
    /\ UNCHANGED << sys_stdout, sys_stderr, interp, watchdog, viz >>

\* line 324: old_stderr = sys.stderr
EnvSaveStderr(t) ==
    /\ env[t].pc = "save_stderr"
    /\ env' = [env EXCEPT ![t].pc = "redirect_stdout", ![t].old_stderr = sys_stderr]
    /\ UNCHANGED << sys_stdout, sys_stderr, interp, watchdog, viz >>

\* lines 325-329: sys.stdout = stdout_buffer, if capture_stdout
EnvRedirectStdout(t) ==
    /\ env[t].pc = "redirect_stdout"
    /\ env' = [env EXCEPT ![t].pc = "redirect_stderr"]
    /\ sys_stdout' = IF env[t].capture_stdout THEN StringIO(t) ELSE sys_stdout
    /\ UNCHANGED << sys_stderr, interp, watchdog, viz >>

\* lines 330-331: sys.stderr = stderr_buffer, if capture_stderr; then yield
EnvRedirectStderr(t) ==
    /\ env[t].pc = "redirect_stderr"
    /\ env' = [env EXCEPT ![t].pc = "yield"]
    /\ sys_stderr' = IF env[t].capture_stderr THEN StringIO(t) ELSE sys_stderr
    /\ UNCHANGED << sys_stdout, interp, watchdog, viz >>

\* finally, line 337: sys.stdout = old_stdout
EnvRestoreStdout(t) ==
    /\ env[t].pc = "restore_stdout"
    /\ env' = [env EXCEPT ![t].pc = "restore_stderr"]
    /\ sys_stdout' = env[t].old_stdout
    /\ UNCHANGED << sys_stderr, interp, watchdog, viz >>

\* finally, line 338: sys.stderr = old_stderr
EnvRestoreStderr(t) ==
    /\ env[t].pc = "restore_stderr"
    /\ env' = [env EXCEPT ![t].pc = "stop"]
    /\ sys_stderr' = env[t].old_stderr
    /\ UNCHANGED << sys_stdout, interp, watchdog, viz >>

\* finally, lines 340-343: the context takes what the StringIO buffers hold
\* (print is intercepted, so nothing was written to them) and the watchdog is
\* told to stop
EnvStop(t) ==
    /\ env[t].pc = "stop"
    /\ env' = [env EXCEPT ![t].pc = "exit"]
    /\ IF t = 1
       THEN /\ context' = [context EXCEPT !.stdout_buffer = <<>>]
            /\ execution_stopped' = TRUE
       ELSE UNCHANGED << context, execution_stopped >>
    /\ UNCHANGED << sys_stdout, sys_stderr, config, steps, source, heap, pystack,
                    ret, exc, results, start_time, monitor, now, viz >>

\* What trace() gives its caller, lines 293-305: TimeoutError passes, any
\* other exception becomes an ExecutionError naming it, else self.steps
TraceOutcome(e, st) ==
    IF e = "" THEN [outcome |-> "ok", exception_type |-> "", steps |-> st]
    ELSE IF e = "TimeoutError"
    THEN [outcome |-> "TimeoutError", exception_type |-> "", steps |-> <<>>]
    ELSE [outcome |-> "ExecutionError", exception_type |-> e, steps |-> <<>>]

TraceReturn ==
    /\ env[1].pc = "exit"
    /\ results' = Append(results, [source |-> source, fresh |-> env[1].fresh]
                                     @@ TraceOutcome(exc, steps))
    /\ env' = [env EXCEPT ![1].pc = "done"]
    /\ UNCHANGED << sys_stdout, sys_stderr, config, steps, source, context, heap,
                    pystack, ret, exc, watchdog, viz >>

\* _execute_tree (lines 356-364) and _execute_node on the Module node (lines
\* 366-386): the namespaces are set up, the budget is tested, the module body
\* is entered
ExecuteTree ==
    /\ env[1].pc = "yield" /\ pystack = <<>>
    /\ LET c == [context EXCEPT !.global_namespace = EmptyDict,
                                !.local_namespace = EmptyDict,
                                !.local_is_global = TRUE]
       IN  IF c.step_count >= config.max_steps
           THEN Throw(c, heap, steps, "ResourceError")
           ELSE IF Source(source) = <<>>
           THEN /\ context' = c /\ env' = [env EXCEPT ![1].pc = "restore_stdout"]
                /\ UNCHANGED << heap, steps, ret, pystack, exc >>
           ELSE Finish(c, heap, steps, NoRet,
                       << [k |-> "Module", body |-> Source(source), pc |-> 1] >>)
    /\ UNCHANGED << config, source, results, sys_stdout, sys_stderr, watchdog, viz >>

\* _execute_node, lines 369-374: the budget test every node starts with
ExecuteNodeBudget ==
    /\ AtStmt /\ ret.kind = "none"
    /\ context.step_count >= config.max_steps
    /\ Throw(context, heap, steps, "ResourceError")
    /\ UNCHANGED << config, source, results, sys_stdout, sys_stderr, watchdog, viz >>

\* a statement starts: _execute_node passed its budget test
Starts(kind) ==
    /\ AtStmt /\ ret.kind = "none" /\ Stmt.k = kind
    /\ context.step_count < config.max_steps

\* _execute_node on Module, lines 382-386: the loop over the module body
ModuleNext ==
    /\ Running /\ Top.k = "Module" /\ ret.kind = "stmt"
    /\ IF IsTuple(ret.v) \/ Top.pc + 1 > Len(Top.body)
       THEN /\ pystack' = <<>> /\ ret' = NoRet
            /\ env' = [env EXCEPT ![1].pc = "restore_stdout"]
       ELSE /\ pystack' = SetPc(Top.pc + 1) /\ ret' = NoRet
            /\ UNCHANGED env
    /\ UNCHANGED << config, steps, source, context, heap, exc, results,
                    sys_stdout, sys_stderr, watchdog, viz >>

\* -------------------------------------------------------------- statements
rest == << config, source, results, sys_stdout, sys_stderr, watchdog, viz >>

\* the ids id() may give a container made now
FreeIds(h)  == (1..(Cardinality(DOMAIN h) + MaxAddr)) \ DOMAIN h
NewIds(e)   == IF e.k = "List" THEN FreeIds(heap) ELSE {0}

\* _eval_expression / _handle_call on a statement's value that runs no traced
\* code: a list display makes a new object at id a (lines 452-453), a method
\* call runs the method (lines 562-568; list.append mutates the object in
\* place), anything else is EvalExpression.
EvalValue(node, c, h, a) ==
    CASE node.k = "List" ->
            LET es  == [i \in 1..Len(node.elts) |-> EvalExpression(node.elts[i], NamespaceOf(c), h)]
                bad == {i \in 1..Len(es) : IsExc(es[i])}
            IN  IF bad # {} THEN [val |-> es[CHOOSE i \in bad : \A j \in bad : i <= j], heap |-> h]
                ELSE [val |-> RefV(a), heap |-> (a :> es) @@ h]
      [] node.k = "MethodCall" ->
            LET obj  == EvalExpression(node.value, NamespaceOf(c), h)
                args == [i \in 1..Len(node.args) |-> EvalExpression(node.args[i], NamespaceOf(c), h)]
            IN  IF IsExc(obj) THEN [val |-> obj, heap |-> h]
                ELSE IF obj.t = "list" /\ node.attr = "append"
                THEN IF Len(args) # 1 THEN [val |-> ExcV("TypeError"), heap |-> h]
                     ELSE IF IsExc(args[1]) THEN [val |-> args[1], heap |-> h]
                     ELSE [val |-> NoneV, heap |-> [h EXCEPT ![obj.v] = Append(@, args[1])]]
                ELSE [val |-> NoneV, heap |-> h]      \* no such method: "return None"
      [] OTHER -> [val |-> EvalExpression(node, NamespaceOf(c), h), heap |-> h]

\* _assign_value, lines 595-613 (Name and Subscript targets)
AssignValue(c, h, target, val) ==
    CASE target.k = "Name" ->
            [context |-> IF val.t = "list"
                         THEN TrackHeapObject(BindName(c, target.id, val), h, val)
                         ELSE BindName(c, target.id, val),
             heap |-> h]
      [] target.k = "Subscript" ->
            LET obj == EvalExpression(target.value, NamespaceOf(c), h)
                idx == EvalExpression(target.slice, NamespaceOf(c), h)
                n   == IF obj.t = "list" THEN Len(h[obj.v]) ELSE 0
                at  == IF idx.v < 0 THEN idx.v + n ELSE idx.v
            IN  [context |-> c,
                 heap |-> IF obj.t = "list" /\ idx.t \in {"int", "bool"} /\ at >= 0 /\ at < n
                          THEN [h EXCEPT ![obj.v][at + 1] = val]
                          ELSE h]                     \* "Assignment failed? Whatever"
      [] OTHER -> [context |-> c, heap |-> h]

\* the statement that made a call goes on with the call's value
Resumes(kind) == AtStmt /\ ret.kind = "call" /\ Stmt.k = kind

\* AssignmentHandler.handle on ast.Assign, lines 63-77
ExecAssign ==
    /\ \/ Starts("Assign") /\ ~Suspends(Stmt.value, context)
       \/ Resumes("Assign")
    /\ \E a \in (IF ret.kind = "none" THEN NewIds(Stmt.value) ELSE {0}) :
        LET c0 == IF ret.kind = "none"
                  THEN [context EXCEPT !.current_line = Stmt.lineno] ELSE context
            ev == IF ret.kind = "call" THEN [val |-> ret.v, heap |-> heap]
                  ELSE EvalValue(Stmt.value, c0, heap, a)
        IN  IF IsExc(ev.val) THEN Throw(c0, heap, steps, ev.val.s)
            ELSE LET av == AssignValue(c0, ev.heap, Stmt.target, ev.val)
                     cs == CreateStep(av.context, av.heap, "ASSIGNMENT", Stmt.text, ev.val, NoneV)
                 IN  IF cs.raised THEN Throw(cs.context, av.heap, steps, "RuntimeError")
                     ELSE Finish(cs.context, av.heap, Append(steps, cs.step),
                                 StmtResult(NoneV), pystack)
    /\ UNCHANGED rest

\* AssignmentHandler.handle on ast.AugAssign, lines 79-91
ExecAugAssign ==
    /\ Starts("AugAssign")
    /\ LET c0 == [context EXCEPT !.current_line = Stmt.lineno]
           target_value  == EvalExpression(Stmt.target, NamespaceOf(c0), heap)
           operand_value == EvalExpression(Stmt.value, NamespaceOf(c0), heap)
           result == ApplyOperator(Stmt.op, target_value, operand_value)
       IN  IF IsExc(target_value) THEN Throw(c0, heap, steps, target_value.s)
           ELSE IF IsExc(operand_value) THEN Throw(c0, heap, steps, operand_value.s)
           ELSE LET av == AssignValue(c0, heap, Stmt.target, result)
                    cs == CreateStep(av.context, av.heap, "ASSIGNMENT", Stmt.text, result, NoneV)
                IN  IF cs.raised THEN Throw(cs.context, av.heap, steps, "RuntimeError")
                    ELSE Finish(cs.context, av.heap, Append(steps, cs.step),
                                StmtResult(NoneV), pystack)
    /\ UNCHANGED rest

\* _execute_node on ast.Expr, lines 388-396: the statement's result is the
\* value of its expression
ExecExpr ==
    /\ \/ Starts("Expr") /\ ~Suspends(Stmt.value, context)
       \/ Resumes("Expr")
    /\ LET ev == IF ret.kind = "call" THEN [val |-> ret.v, heap |-> heap]
                 ELSE EvalValue(Stmt.value, context, heap, 0)
       IN  IF IsExc(ev.val) THEN Throw(context, heap, steps, ev.val.s)
           ELSE IF config.capture_expressions
           THEN LET cs == CreateStep(context, ev.heap, "EXPRESSION", "", ev.val, NoneV)
                IN  IF cs.raised THEN Throw(cs.context, ev.heap, steps, "RuntimeError")
                    ELSE Finish(cs.context, ev.heap, Append(steps, cs.step),
                                StmtResult(ev.val), pystack)
           ELSE Finish(context, ev.heap, steps, StmtResult(ev.val), pystack)
    /\ UNCHANGED rest

\* FunctionHandler.handle on ast.Return, lines 237-240
ExecReturn ==
    /\ \/ Starts("Return") /\ ~Suspends(Stmt.value, context)
       \/ Resumes("Return")
    /\ LET val == IF ret.kind = "call" THEN ret.v
                  ELSE EvalExpression(Stmt.value, NamespaceOf(context), heap)
       IN  IF IsExc(val) THEN Throw(context, heap, steps, val.s)
           ELSE Finish(context, heap, steps,
                       StmtResult(TupleV(<< StrV("return"), val >>)), pystack)
    /\ UNCHANGED rest

\* FunctionHandler.handle on ast.FunctionDef, lines 183-235: the closure is
\* bound to the function's name
ExecFunctionDef ==
    /\ Starts("FunctionDef")
    /\ Finish(BindName(context, Stmt.name, FnV(Stmt.name)), heap, steps,
              StmtResult(NoneV), pystack)
    /\ UNCHANGED rest

\* ------------------------------------------------------------ control flow
\* ControlFlowHandler.handle on ast.If, lines 104-123: the test, the
\* CONDITION step, and the choice of the branch
ExecIf ==
    /\ Starts("If")
    /\ LET c0 == [context EXCEPT !.current_line = Stmt.lineno]
           condition == EvalExpression(Stmt.test, NamespaceOf(c0), heap)
           cs == CreateStep(c0, heap, "CONDITION", Stmt.text, NoneV, BoolV(Truthy(condition)))
           branch == IF Truthy(condition) THEN Stmt.body ELSE Stmt.orelse
       IN  IF IsExc(condition) THEN Throw(c0, heap, steps, condition.s)
           ELSE IF cs.raised THEN Throw(cs.context, heap, steps, "RuntimeError")
           ELSE IF branch = <<>>
           THEN Finish(cs.context, heap, Append(steps, cs.step), StmtResult(NoneV), pystack)
           ELSE Finish(cs.context, heap, Append(steps, cs.step), NoRet,
                       Append(pystack, [k |-> "If", body |-> branch, pc |-> 1]))
    /\ UNCHANGED rest

\* lines 115-123: the loop over the statements of the chosen branch
IfNext ==
    /\ Running /\ Top.k = "If" /\ ret.kind = "stmt"
    /\ IF IsTuple(ret.v) /\ Len(ret.v.e) = 0
       THEN Throw(context, heap, steps, "IndexError")            \* result[0] of ()
       ELSE IF IsTagged(ret.v, "return")
       THEN Finish(context, heap, steps, ret, Below)
       ELSE IF Top.pc + 1 <= Len(Top.body)
       THEN Finish(context, heap, steps, NoRet, SetPc(Top.pc + 1))
       ELSE Finish(context, heap, steps, StmtResult(NoneV), Below)
    /\ UNCHANGED rest

\* ControlFlowHandler.handle on ast.While, lines 125-128: the LOOP_START step
ExecWhile ==
    /\ Starts("While")
    /\ LET c0 == [context EXCEPT !.current_line = Stmt.lineno]
           cs == CreateStep(c0, heap, "LOOP_START", Stmt.text, NoneV, NoneV)
       IN  IF cs.raised THEN Throw(cs.context, heap, steps, "RuntimeError")
           ELSE Finish(cs.context, heap, Append(steps, cs.step), NoRet,
                       Append(pystack, [k |-> "While", body |-> Stmt.body,
                                        test |-> Stmt.test, pc |-> 0]))
    /\ UNCHANGED rest

\* line 130 and lines 144-145: the loop test; when it fails, the LOOP_END step
WhileTest ==
    /\ Running /\ Top.k = "While" /\ Top.pc = 0 /\ ret.kind = "none"
    /\ LET condition == EvalExpression(Top.test, NamespaceOf(context), heap)
           cs == CreateStep(context, heap, "LOOP_END", "", NoneV, NoneV)
       IN  IF IsExc(condition) THEN Throw(context, heap, steps, condition.s)
           ELSE IF Truthy(condition) THEN Finish(context, heap, steps, NoRet, SetPc(1))
           ELSE IF cs.raised THEN Throw(cs.context, heap, steps, "RuntimeError")
           ELSE Finish(cs.context, heap, Append(steps, cs.step), StmtResult(NoneV), Below)
    /\ UNCHANGED rest

\* lines 131-142: the loop over the body, and the LOOP_ITERATION step
WhileNext ==
    /\ Running /\ Top.k = "While" /\ ret.kind = "stmt"
    /\ LET cs == CreateStep(context, heap, "LOOP_ITERATION", "", NoneV, NoneV)
       IN  IF IsTuple(ret.v) /\ Len(ret.v.e) = 0
           THEN Throw(context, heap, steps, "IndexError")
           ELSE IF IsTagged(ret.v, "return")
           THEN Finish(context, heap, steps, ret, Below)
           ELSE IF IsTagged(ret.v, "break")
           THEN Finish(context, heap, steps, StmtResult(NoneV), Below)
           ELSE IF ~IsTagged(ret.v, "continue") /\ Top.pc + 1 <= Len(Top.body)
           THEN Finish(context, heap, steps, NoRet, SetPc(Top.pc + 1))
           ELSE IF cs.raised THEN Throw(cs.context, heap, steps, "RuntimeError")
           ELSE Finish(cs.context, heap, Append(steps, cs.step), NoRet, SetPc(0))
    /\ UNCHANGED rest

\* ---------------------------------------------------------- traced calls
\* traced_function, lines 185-210: the frame is pushed, the callee's scope
\* replaces the caller's, the FUNCTION_CALL step is made
TracedFunctionEnter(c, h, node, args) ==
    LET frame == [ function_name |-> node.name, module_name |-> "__main__",
                   line_number |-> node.lineno,
                   arguments |-> [p \in {node.args[i] : i \in 1..Len(node.args)} |->
                        LET i == CHOOSE j \in 1..Len(node.args) : node.args[j] = p
                        IN  IF i <= Len(args) THEN DeepCopy(args[i], h) ELSE NoneV] ]
        bound == [p \in {node.args[i] : i \in 1..Min2(Len(node.args), Len(args))} |->
                        args[CHOOSE j \in 1..Len(node.args) : node.args[j] = p]]
        c1 == [c EXCEPT !.call_stack = Append(@, frame),
                        !.local_namespace = bound @@ c.global_namespace,
                        !.local_is_global = FALSE]
        cs == CreateStep(c1, h, "FUNCTION_CALL", node.name, NoneV, NoneV)
    IN  IF PushFrameOverflow(c)
        THEN [raised |-> TRUE, cls |-> "RecursionError", context |-> c, step |-> NoneV]
        ELSE IF cs.raised
        THEN [raised |-> TRUE, cls |-> "RuntimeError", context |-> cs.context, step |-> NoneV]
        ELSE [raised |-> FALSE, cls |-> "", context |-> cs.context, step |-> cs.step]

FuncFrame(node, c) ==
    [k |-> "Func", body |-> node.body, pc |-> 1,
     old_locals |-> c.local_namespace, old_is_global |-> c.local_is_global]

\* _handle_call (lines 571-591) reaching a traced function from the value of
\* an assignment, an expression statement or a return statement
CallFunction ==
    /\ AtStmt /\ ret.kind = "none" /\ Stmt.k \in {"Assign", "Expr", "Return"}
    /\ context.step_count < config.max_steps
    /\ IsTracedCall(Stmt.value, context)
    /\ LET c0   == IF Stmt.k = "Assign"
                   THEN [context EXCEPT !.current_line = Stmt.lineno] ELSE context
           args == [i \in 1..Len(Stmt.value.args) |->
                        EvalExpression(Stmt.value.args[i], NamespaceOf(c0), heap)]
           bad  == {i \in 1..Len(args) : IsExc(args[i])}
           node == FuncDef(Stmt.value.func)
           en   == TracedFunctionEnter(c0, heap, node, args)
       IN  IF bad # {} THEN Throw(c0, heap, steps, "TypeError")
           ELSE IF en.raised THEN Throw(en.context, heap, steps, en.cls)
           ELSE Finish(en.context, heap, Append(steps, en.step), NoRet,
                       Append(pystack, FuncFrame(node, c0)))
    /\ UNCHANGED rest

\* traced_function, lines 213-231: the loop over the body; then the
\* FUNCTION_RETURN step, pop_frame, and the caller's scope back
FuncNext ==
    /\ Running /\ Top.k = "Func" /\ ret.kind = "stmt"
    /\ LET returns == IsTagged(ret.v, "return")
           return_value == IF returns THEN ret.v.e[2] ELSE NoneV
           cs == CreateStep(context, heap, "FUNCTION_RETURN", "", return_value, NoneV)
           c2 == [cs.context EXCEPT
                    !.call_stack = IF @ = <<>> THEN @ ELSE SubSeq(@, 1, Len(@) - 1),
                    !.local_namespace = IF Top.old_is_global
                                        THEN cs.context.global_namespace ELSE Top.old_locals,
                    !.local_is_global = Top.old_is_global]
       IN  IF IsTuple(ret.v) /\ (Len(ret.v.e) = 0 \/ (returns /\ Len(ret.v.e) < 2))
           THEN Throw(context, heap, steps, "IndexError")
           ELSE IF ~returns /\ Top.pc + 1 <= Len(Top.body)
           THEN Finish(context, heap, steps, NoRet, SetPc(Top.pc + 1))
           ELSE IF cs.raised THEN Throw(cs.context, heap, steps, "RuntimeError")
           ELSE Finish(c2, heap, Append(steps, cs.step), CallValue(return_value), Below)
    /\ UNCHANGED rest

\* _eval_expression on ast.Compare (lines 478-486) whose right operand is
\* map(f, [...]): the operands are evaluated, then _apply_comparison runs
\* "l in r" inside its try (lines 685-690)
CompareInMap ==
    /\ AtStmt /\ ret.kind = "none" /\ Stmt.k \in {"Assign", "Expr", "Return"}
    /\ context.step_count < config.max_steps
    /\ IsInMap(Stmt.value)
    /\ LET c0 == IF Stmt.k = "Assign"
                 THEN [context EXCEPT !.current_line = Stmt.lineno] ELSE context
           needle == EvalExpression(Stmt.value.left, NamespaceOf(c0), heap)
           fn     == EvalExpression(Stmt.value.right.args[1], NamespaceOf(c0), heap)
           elts   == Stmt.value.right.args[2].elts
           items  == [i \in 1..Len(elts) |-> EvalExpression(elts[i], NamespaceOf(c0), heap)]
       IN  IF IsExc(needle) THEN Throw(c0, heap, steps, needle.s)
           ELSE IF fn.t # "function" THEN Throw(c0, heap, steps, "TypeError")
           ELSE Finish(c0, heap, steps, NoRet,
                       Append(pystack, [k |-> "InMap", needle |-> needle, fn |-> fn.s,
                                        items |-> items, body |-> <<>>, pc |-> 0]))
    /\ UNCHANGED rest

\* "l in r" over the lazy map: each item is passed to the traced function
\* until a result equals the needle
InMapNext ==
    /\ Running /\ Top.k = "InMap" /\ ret.kind \in {"none", "call"}
    /\ LET node == FuncDef(Top.fn)
           en   == TracedFunctionEnter(context, heap, node, << Top.items[1] >>)
       IN  IF ret.kind = "call" /\ PyEq(Top.needle, ret.v, heap)
           THEN Finish(context, heap, steps, CallValue(BoolV(TRUE)), Below)
           ELSE IF Top.items = <<>>
           THEN Finish(context, heap, steps, CallValue(BoolV(FALSE)), Below)
           ELSE IF en.raised THEN Throw(en.context, heap, steps, en.cls)
           ELSE Finish(en.context, heap, Append(steps, en.step), NoRet,
                       Append([pystack EXCEPT ![Len(pystack)].items = Tail(@)],
                              FuncFrame(node, context)))
    /\ UNCHANGED rest

\* ------------------------------------------------------------- the tracer
\* TracerConfig (config.py 32-45): the fields the tracer reads
TracerConfig(budgets, depths, expressions, timeouts) ==
    [ max_steps : budgets, max_recursion_depth : depths,
      capture_expressions : expressions, capture_stdout : {TRUE}, capture_stderr : {TRUE},
      max_execution_time_seconds : timeouts ]

\* the configurations of the single-threaded specification: no deadline
Configs == TracerConfig((MaxSteps - 3)..MaxSteps, 1..MaxDepth, BOOLEAN, {0})

Init ==
    /\ config \in Configs
    /\ sys_stdout = OrigStdout /\ sys_stderr = OrigStderr
    /\ env = [t \in Threads |-> IdleEnv]
    /\ steps = <<>> /\ source = 1
    /\ context = NewContext(config)
    /\ heap = [a \in {} |-> <<>>]
    /\ pystack = <<>> /\ ret = NoRet /\ exc = "" /\ results = <<>>
    /\ execution_stopped = FALSE /\ start_time = 0 /\ monitor = "none" /\ now = 0
    /\ NoViz

Environment(t) ==
    \/ EnvStartTimer(t) \/ EnvSaveStdout(t) \/ EnvSaveStderr(t)
    \/ EnvRedirectStdout(t) \/ EnvRedirectStderr(t)
    \/ EnvRestoreStdout(t) \/ EnvRestoreStderr(t) \/ EnvStop(t)

Interpreter ==
    \/ ExecuteTree \/ ExecuteNodeBudget \/ ModuleNext
    \/ ExecAssign \/ ExecAugAssign \/ ExecExpr \/ ExecReturn \/ ExecFunctionDef
    \/ ExecIf \/ IfNext \/ ExecWhile \/ WhileTest \/ WhileNext
    \/ CallFunction \/ FuncNext \/ CompareInMap \/ InMapNext

Next ==
    \/ \E i \in SourceIds, fresh \in BOOLEAN : Trace(i, fresh)
    \/ Environment(1)
    \/ Interpreter
    \/ TraceReturn

Spec == Init /\ [][Next]_vars

\* ------------------------------------------------- two concurrent traces
\* Two threads, each with its own ExecutionTracer, call trace() once.  What a
\* thread does between the yield of _execution_environment and its finally
\* clause touches neither sys.stdout nor sys.stderr (print is intercepted,
\* tracer.py 578-584), so that part is one step of the thread.
ThreadTrace(t) ==
    /\ env[t].pc = "idle"
    /\ \E out \in BOOLEAN, err \in BOOLEAN :
         env' = [env EXCEPT ![t].pc = "start_timer",
                            ![t].capture_stdout = out, ![t].capture_stderr = err]
    /\ UNCHANGED << sys_stdout, sys_stderr, interp, watchdog, viz >>

\* trace(), lines 292-302: _execute_tree returns or raises; either way the
\* thread goes on in the finally clause
ThreadExecute(t) ==
    /\ env[t].pc = "yield"
    /\ \E raised \in BOOLEAN :
         env' = [env EXCEPT ![t].pc = IF raised THEN FinallyOnException
                                                ELSE "restore_stdout"]
    /\ UNCHANGED << sys_stdout, sys_stderr, interp, watchdog, viz >>

\* trace() returns to the thread's caller, or raises to it
ThreadReturn(t) ==
    /\ env[t].pc = "exit"
    /\ env' = [env EXCEPT ![t].pc = "done"]
    /\ UNCHANGED << sys_stdout, sys_stderr, interp, watchdog, viz >>

InitThreads ==
    /\ config \in TracerConfig({MaxSteps}, {MaxDepth}, {TRUE}, {0})
    /\ sys_stdout = OrigStdout /\ sys_stderr = OrigStderr
    /\ env = [t \in Threads |-> IdleEnv]
    /\ steps = <<>> /\ source = 1
    /\ context = NewContext(config)
    /\ heap = [a \in {} |-> <<>>]
    /\ pystack = <<>> /\ ret = NoRet /\ exc = "" /\ results = <<>>
    /\ execution_stopped = FALSE /\ start_time = 0 /\ monitor = "none" /\ now = 0
    /\ NoViz

NextThreads ==
    \E t \in Threads :
        ThreadTrace(t) \/ Environment(t) \/ ThreadExecute(t) \/ ThreadReturn(t)

SpecThreads == InitThreads /\ [][NextThreads]_vars

\* ---------------------------------------------------------- the watchdog
\* _monitor_timeout, lines 345-354, run by the thread that
\* _execution_environment starts: one pass of its loop.  The TimeoutError it
\* raises propagates in the watchdog thread and ends it.
MonitorPoll ==
    /\ monitor = "polling"
    /\ IF execution_stopped
       THEN monitor' = "returned" /\ UNCHANGED execution_stopped
       ELSE IF now - start_time > config.max_execution_time_seconds
       THEN monitor' = "raised" /\ execution_stopped' = TRUE
       ELSE monitor' = "sleeping" /\ UNCHANGED execution_stopped
    /\ UNCHANGED << sys_stdout, sys_stderr, env, interp, start_time, now, viz >>

\* line 354: time.sleep(0.1) ends
MonitorWake ==
    /\ monitor = "sleeping"
    /\ monitor' = "polling"
    /\ UNCHANGED << sys_stdout, sys_stderr, env, interp, execution_stopped, start_time, now, viz >>

\* time passes while a trace call is under way
Tick ==
    /\ env[1].pc \notin {"idle", "done"}
    /\ now < MaxClock
    /\ now' = now + 1
    /\ UNCHANGED << sys_stdout, sys_stderr, env, interp, execution_stopped, start_time, monitor, viz >>

\* one call of trace() on source 1, the loop, under a deadline
TraceWatched == env[1].pc = "idle" /\ Trace(1, TRUE)

InitWatchdog ==
    /\ config \in TracerConfig((MaxSteps - 3)..MaxSteps, {MaxDepth}, {TRUE}, 1..MaxTimeout)
    /\ sys_stdout = OrigStdout /\ sys_stderr = OrigStderr
    /\ env = [t \in Threads |-> IdleEnv]
    /\ steps = <<>> /\ source = 1
    /\ context = NewContext(config)
    /\ heap = [a \in {} |-> <<>>]
    /\ pystack = <<>> /\ ret = NoRet /\ exc = "" /\ results = <<>>
    /\ execution_stopped = FALSE /\ start_time = 0 /\ monitor = "none" /\ now = 0
    /\ NoViz

NextWatchdog ==
    \/ TraceWatched
    \/ Environment(1)
    \/ ExecuteTree \/ ExecuteNodeBudget \/ ModuleNext
    \/ ExecAssign \/ ExecAugAssign \/ ExecWhile \/ WhileTest \/ WhileNext
    \/ TraceReturn
    \/ MonitorPoll \/ MonitorWake \/ Tick

SpecWatchdog == InitWatchdog /\ [][NextWatchdog]_vars

\* ================================================================ claims
\* what the finished calls gave their callers
Returned(k) == results[k].outcome = "ok"
CountSteps(st, type) == Cardinality({i \in DOMAIN st : st[i].step_type = type})
Deadline == config.max_execution_time_seconds

\* C1: a trace call made on a fresh tracer that returns normally returns a
\* list of at most max_steps ExecutionSteps.
C1_StepBudget ==
    \A k \in DOMAIN results :
        (Returned(k) /\ results[k].fresh) => Len(results[k].steps) <= config.max_steps

\* C1's case: a fresh call used its whole budget and returned normally, and
\* another call ran over the budget and was aborted.
C1_Witness ==
    /\ \E k \in DOMAIN results :
         Returned(k) /\ results[k].fresh /\ Len(results[k].steps) = config.max_steps
    /\ \E k \in DOMAIN results : results[k].exception_type = "RuntimeError"

\* C2: when a program would produce more than max_steps steps, the fault the
\* caller of trace receives is a ResourceError for the step budget.
C2_BudgetFaultIsResourceError ==
    \A k \in DOMAIN results :
        results[k].exception_type \in {"ResourceError", "RuntimeError"}
            => results[k].outcome = "ResourceError"

\* C3: a trace call still executing when max_execution_time_seconds have
\* elapsed is aborted with TimeoutError at its next instrumentation point: a
\* call that did not end in TimeoutError recorded no step after the deadline.
C3_TimeoutAbortsTrace ==
    \A k \in DOMAIN results :
        results[k].outcome # "TimeoutError"
            => \A i \in DOMAIN steps : steps[i].timestamp - start_time <= Deadline

\* C4: when a single trace call has left _execution_environment, on any exit
\* path, sys.stdout and sys.stderr are the streams they were before the call.
C4_StreamsRestored ==
    env[1].pc \in {"exit", "done"}
        => sys_stdout = OrigStdout /\ sys_stderr = OrigStderr

\* C4's case: a call that ended in a fault, and one that returned normally,
\* have both finished.
C4_Witness ==
    /\ env[1].pc = "done" /\ Len(results) = 2
    /\ results[1].outcome = "ExecutionError" /\ results[2].outcome = "ok"
    /\ sys_stdout = OrigStdout /\ sys_stderr = OrigStderr

\* C5: once two concurrent trace calls, each on its own tracer, have both
\* finished, sys.stdout and sys.stderr are the original streams.
C5_ConcurrentStreamsRestored ==
    (\A t \in Threads : env[t].pc = "done")
        => sys_stdout = OrigStdout /\ sys_stderr = OrigStderr

\* C6: the list a trace call returns holds only the steps of that call,
\* numbered from 1, also when the tracer was used before.
C6_CallReturnsOwnSteps ==
    \A k \in DOMAIN results :
        Returned(k) => \A i \in DOMAIN results[k].steps : results[k].steps[i].step_number = i

\* C7: two traces of the same source under the same configuration, each on a
\* fresh tracer, are equal in every field but the timestamp (containers are
\* compared by content, the heap table by its keys and entries).
StepView(st) ==
    [i \in DOMAIN st |-> [st[i] EXCEPT !.timestamp = 0,
                                       !.expression_value = DeepCopy(@, heap)]]
C7_Determinism ==
    \A j, k \in DOMAIN results :
        ( /\ results[j].source = results[k].source
          /\ Returned(j) /\ Returned(k) /\ results[j].fresh /\ results[k].fresh )
            => StepView(results[j].steps) = StepView(results[k].steps)

\* C8: no step of the interpreter changes the variables_state of a step made
\* earlier, in the tracer's list or in a list a call returned: bindings and
\* container contents stay as they were at the step's instrumentation point.
SnapshotsOf(st, h) == [i \in DOMAIN st |-> DeepCopyDict(st[i].variables_state, h)]
C8_SnapshotIsolation ==
    [][ /\ \A i \in DOMAIN steps \cap DOMAIN steps' :
              SnapshotsOf(steps', heap')[i] = SnapshotsOf(steps, heap)[i]
        /\ \A k \in DOMAIN results :
              SnapshotsOf(results'[k].steps, heap') = SnapshotsOf(results[k].steps, heap)
      ]_vars

\* C8's case: an earlier step shows a list as it was, and the list has since
\* been changed in place.
C8_Witness ==
    \E i \in DOMAIN steps : \E n \in DOMAIN steps[i].variables_state :
        /\ n \in DOMAIN context.global_namespace
        /\ context.global_namespace[n].t = "list"
        /\ steps[i].variables_state[n].t = "listcopy"
        /\ steps[i].variables_state[n] # DeepCopy(context.global_namespace[n], heap)

\* C9: the traced call stack never holds more than max_recursion_depth
\* frames, and a push refused with RecursionError leaves the stack as it was,
\* full.
C9_RecursionDepth ==
    /\ Len(context.call_stack) <= config.max_recursion_depth
    /\ exc = "RecursionError" => Len(context.call_stack) = config.max_recursion_depth

\* C9's case: a push was refused on a full stack.
C9_Witness ==
    /\ exc = "RecursionError"
    /\ Len(context.call_stack) = config.max_recursion_depth

\* C10: when a trace call on a fresh tracer has completed, its FUNCTION_CALL
\* and FUNCTION_RETURN steps are equal in number, the call stack is empty and
\* the local namespace is the global namespace.
C10_CallsBalanced ==
    (env[1].pc = "done" /\ exc = "" /\ env[1].fresh)
        => /\ CountSteps(steps, "FUNCTION_CALL") = CountSteps(steps, "FUNCTION_RETURN")
           /\ context.call_stack = <<>>
           /\ context.local_is_global

\* ============================================================ adapters
\* ------------------------------------------------------ AnimationCommand
\* base.py 44: duration_ms: int = 300
DefaultDuration == 300

\* base.py 37-57: the dataclass, with the fields the adapters and the
\* optimizer read (values and metadata are carried along and never compared)
AnimationCommand(command_type, target_indices, target_ids, duration_ms, delay_ms) ==
    [ command_type |-> command_type, target_indices |-> target_indices,
      target_ids |-> target_ids, duration_ms |-> duration_ms, delay_ms |-> delay_ms ]

\* a variant of the loop below in which a merge also forgets previous_cmd
RECURSIVE OptimizeLoopForgetsPrevious(_, _, _)
OptimizeLoopForgetsPrevious(optimized_sequence, previous_cmd, cmds) ==
    IF cmds = <<>> THEN optimized_sequence
    ELSE LET cmd == Head(cmds) IN
         IF /\ previous_cmd > 0
            /\ cmd.command_type = optimized_sequence[previous_cmd].command_type
            /\ cmd.target_indices = optimized_sequence[previous_cmd].target_indices
         THEN OptimizeLoopForgetsPrevious(
                  [optimized_sequence EXCEPT
                      ![previous_cmd].duration_ms = @ + cmd.duration_ms],
                  0, Tail(cmds))
         ELSE OptimizeLoopForgetsPrevious(Append(optimized_sequence, cmd),
                                          Len(optimized_sequence) + 1, Tail(cmds))

OptimizeAnimationsForgetsPrevious(animation_sequence) ==
    IF Len(animation_sequence) < 2 THEN animation_sequence
    ELSE OptimizeLoopForgetsPrevious(<<>>, 0, animation_sequence)

\* base.py 229-240: the loop of optimize_animations.  previous_cmd is the
\* position in optimized_sequence of the command it names (0: None); the
\* merge adds to that object's duration_ms and keeps previous_cmd
RECURSIVE OptimizeLoop(_, _, _)
OptimizeLoop(optimized_sequence, previous_cmd, cmds) ==
    IF cmds = <<>> THEN optimized_sequence
    ELSE LET cmd == Head(cmds) IN
         IF /\ previous_cmd > 0
            /\ cmd.command_type = optimized_sequence[previous_cmd].command_type
            /\ cmd.target_indices = optimized_sequence[previous_cmd].target_indices
         THEN OptimizeLoop(
                  [optimized_sequence EXCEPT
                      ![previous_cmd].duration_ms = @ + cmd.duration_ms],
                  previous_cmd, Tail(cmds))
         ELSE OptimizeLoop(Append(optimized_sequence, cmd),
                           Len(optimized_sequence) + 1, Tail(cmds))

\* base.py 222-242: optimize_animations, as a function of animation_sequence
OptimizeAnimations(animation_sequence) ==
    IF Len(animation_sequence) < 2 THEN animation_sequence
    ELSE OptimizeLoop(<<>>, 0, animation_sequence)

\* ------------------------------------------- the optimizer on its own
\* An adapter holds a command sequence and optimize_animations() is called
\* on it, again and again.
MaxCmds == 3
MaxPasses == 2

\* the tracer is not running while the adapter layer works
TracerIdle ==
    /\ config \in TracerConfig({MaxSteps}, {MaxDepth}, {TRUE}, {0})
    /\ sys_stdout = OrigStdout /\ sys_stderr = OrigStderr
    /\ env = [t \in Threads |-> IdleEnv]
    /\ steps = <<>> /\ source = 1
    /\ context = NewContext(config)
    /\ heap = [a \in {} |-> <<>>]
    /\ pystack = <<>> /\ ret = NoRet /\ exc = "" /\ results = <<>>
    /\ execution_stopped = FALSE /\ start_time = 0 /\ monitor = "none" /\ now = 0

SeqsUpTo(S, n) == UNION { [1..k -> S] : k \in 0..n }

\* the commands the sequences are made of: what GenericAdapter emits for new
\* variables x and y (generic_adapter.py 37-48: target_ids only) and what the
\* array adapter emits for a swap (base.py 186-193: target_indices only), and
\* their mixtures
OptimizerCommands ==
    { AnimationCommand(t, ix, ids, DefaultDuration, 0) :
        t \in {"CREATE", "SWAP"}, ix \in {<<>>, <<0, 1>>},
        ids \in {<<>>, <<"x">>, <<"y">>} }

\* base.py 75-80: a fresh adapter, with the given commands appended
VisualizationAdapter(cls, cmds) == [ cls |-> cls, animation_sequence |-> cmds ]

InitOptimizer ==
    /\ TracerIdle
    /\ execution_steps = <<>> /\ registry = <<>>
    /\ \E cmds \in SeqsUpTo(OptimizerCommands, MaxCmds) :
          /\ adapter = VisualizationAdapter("VisualizationAdapter", cmds)
          /\ call = [ name |-> "optimize_animations", arg |-> cmds, count |-> 0,
                      previous |-> cmds ]

\* one call of adapter.optimize_animations()
OptimizeAnimationsCall ==
    /\ call.name = "optimize_animations" /\ call.count < MaxPasses
    /\ adapter' = [adapter EXCEPT
                      !.animation_sequence = OptimizeAnimations(@)]
    /\ call' = [call EXCEPT !.count = @ + 1, !.previous = adapter.animation_sequence]
    /\ UNCHANGED << execution_steps, registry, tracer >>

NextOptimizer == OptimizeAnimationsCall

SpecOptimizer == InitOptimizer /\ [][NextOptimizer]_vars

\* what a command is aimed at
Target(cmd) == << cmd.command_type, cmd.target_indices, cmd.target_ids >>

\* C11: optimizing an already optimized command sequence changes nothing:
\* the second and every later call of optimize_animations leaves the
\* sequence (number, order, types, targets, durations) as it found it.
C11_OptimizerIdempotent ==
    call.name = "optimize_animations" /\ call.count >= 2
        => adapter.animation_sequence = call.previous

\* a first pass that merged commands, followed by a second pass
C11_Witness ==
    /\ call.name = "optimize_animations" /\ call.count >= 2
    /\ Len(adapter.animation_sequence) < Len(call.arg)
    /\ Len(adapter.animation_sequence) >= 2

\* C12: optimize_animations merges adjacent commands only when type, target
\* indices and target ids are all the same, so every (type, indices, ids)
\* target of the input still has a command in the output.
C12_MergesOnlyIdenticalTargets ==
    call.name = "optimize_animations" /\ call.count >= 1
        => \A k \in DOMAIN call.arg :
              \E m \in DOMAIN adapter.animation_sequence :
                  Target(adapter.animation_sequence[m]) = Target(call.arg[k])

\* ------------------------------------------------------- AdapterRegistry
\* registry.py 27-40
ADAPTER_PRIORITY ==
    << "HeapAdapter", "TreeAdapter", "MatrixAdapter", "HashMapAdapter",
       "GraphAdapter", "LinkedListAdapter", "StackAdapter", "QueueAdapter",
       "ArrayAdapter", "SetAdapter", "StringAdapter", "GenericAdapter" >>

Adapters == { ADAPTER_PRIORITY[i] : i \in DOMAIN ADAPTER_PRIORITY }
Specialised == Adapters \ {"GenericAdapter"}

\* how a call ends: with a value, or with an exception leaving it
Returns(v) == [ raised |-> FALSE, value |-> v ]
Raises == [ raised |-> TRUE, value |-> <<>> ]

\* adapter.can_handle(execution_steps): "True", "False" or "raise".  The
\* generic adapter answers bool(execution_steps) (generic_adapter.py 21-23);
\* what a specialised adapter answers on these steps is given by behaviour
CanHandle(adapter_cls, step_list, behaviour) ==
    IF adapter_cls = "GenericAdapter"
    THEN (IF step_list # <<>> THEN "True" ELSE "False")
    ELSE behaviour.can_handle[adapter_cls]

\* the command sequence adapter_cls builds for the steps, when it builds one:
\* one command that names its maker
Animations(adapter_cls) ==
    << AnimationCommand("HIGHLIGHT", <<>>, <<adapter_cls>>, DefaultDuration, 0) >>

\* adapter.generate_animations(execution_steps): a sequence, an empty
\* sequence, or an exception
GenerateAnimations(adapter_cls, behaviour) ==
    CASE behaviour.generate_animations[adapter_cls] = "commands"
             -> Returns(Animations(adapter_cls))
      [] behaviour.generate_animations[adapter_cls] = "empty" -> Returns(<<>>)
      [] OTHER -> Raises

\* a variant of the detection loop without its try/except: the first
\* can_handle that raises ends the call
RECURSIVE DetectLoopUnguarded(_, _, _, _)
DetectLoopUnguarded(matching, i, step_list, behaviour) ==
    IF i > Len(ADAPTER_PRIORITY) THEN Returns(matching)
    ELSE LET adapter_cls == ADAPTER_PRIORITY[i] IN
         CASE CanHandle(adapter_cls, step_list, behaviour) = "True"
                  -> DetectLoopUnguarded(Append(matching, adapter_cls), i + 1,
                                         step_list, behaviour)
           [] CanHandle(adapter_cls, step_list, behaviour) = "False"
                  -> DetectLoopUnguarded(matching, i + 1, step_list, behaviour)
           [] OTHER -> Raises

DetectAdaptersUnguarded(step_list, behaviour) ==
    LET found == DetectLoopUnguarded(<<>>, 1, step_list, behaviour) IN
    IF found.raised THEN Raises
    ELSE IF found.value = <<>> THEN Returns(<<"GenericAdapter">>) ELSE found

\* a variant of the detection loop that puts each match in front
RECURSIVE DetectLoopPrepends(_, _, _, _)
DetectLoopPrepends(matching, i, step_list, behaviour) ==
    IF i > Len(ADAPTER_PRIORITY) THEN matching
    ELSE LET adapter_cls == ADAPTER_PRIORITY[i] IN
         IF CanHandle(adapter_cls, step_list, behaviour) = "True"
         THEN DetectLoopPrepends(<<adapter_cls>> \o matching, i + 1, step_list, behaviour)
         ELSE DetectLoopPrepends(matching, i + 1, step_list, behaviour)

\* registry.py 54-60: the loop of detect_adapters; a can_handle that raises
\* is skipped like one that answers False
RECURSIVE DetectLoop(_, _, _, _)
DetectLoop(matching, i, step_list, behaviour) ==
    IF i > Len(ADAPTER_PRIORITY) THEN matching
    ELSE LET adapter_cls == ADAPTER_PRIORITY[i] IN
         IF CanHandle(adapter_cls, step_list, behaviour) = "True"
         THEN DetectLoop(Append(matching, adapter_cls), i + 1, step_list, behaviour)
         ELSE DetectLoop(matching, i + 1, step_list, behaviour)

\* registry.py 51-66: detect_adapters
DetectAdapters(step_list, behaviour) ==
    LET matching == DetectLoop(<<>>, 1, step_list, behaviour) IN
    IF matching = <<>> THEN Returns(<<"GenericAdapter">>) ELSE Returns(matching)

\* registry.py 68-71: get_primary_adapter
GetPrimaryAdapter(step_list, behaviour) ==
    LET adapters == DetectAdapters(step_list, behaviour) IN
    IF adapters.raised THEN Raises ELSE Returns(adapters.value[1])

\* results[adapter_name] = animations
SetItem(result_dict, adapter_name, animations) ==
    [ k \in DOMAIN result_dict \cup {adapter_name} |->
        IF k = adapter_name THEN animations ELSE result_dict[k] ]

\* a variant of the generation loop without its try/except
RECURSIVE GenerateAllLoopUnguarded(_, _, _)
GenerateAllLoopUnguarded(result_dict, adapters, behaviour) ==
    IF adapters = <<>> THEN Returns(result_dict)
    ELSE LET adapter_name == Head(adapters)
             animations == GenerateAnimations(adapter_name, behaviour)
         IN IF animations.raised THEN Raises
            ELSE IF animations.value # <<>>
            THEN GenerateAllLoopUnguarded(
                     SetItem(result_dict, adapter_name, animations.value),
                     Tail(adapters), behaviour)
            ELSE GenerateAllLoopUnguarded(result_dict, Tail(adapters), behaviour)

\* registry.py 81-89: the loop of generate_all_animations
RECURSIVE GenerateAllLoop(_, _, _)
GenerateAllLoop(result_dict, adapters, behaviour) ==
    IF adapters = <<>> THEN Returns(result_dict)
    ELSE LET adapter_name == Head(adapters)
             animations == GenerateAnimations(adapter_name, behaviour)
         IN IF animations.raised
            THEN GenerateAllLoop(SetItem(result_dict, adapter_name, <<>>),
                                 Tail(adapters), behaviour)
            ELSE IF animations.value # <<>>
            THEN GenerateAllLoop(SetItem(result_dict, adapter_name, animations.value),
                                 Tail(adapters), behaviour)
            ELSE GenerateAllLoop(result_dict, Tail(adapters), behaviour)

\* the empty dict
NoResults == [ k \in {} |-> <<>> ]

\* registry.py 73-91: generate_all_animations
GenerateAllAnimations(step_list, behaviour) ==
    LET adapters == DetectAdapters(step_list, behaviour) IN
    IF adapters.raised THEN Raises
    ELSE GenerateAllLoop(NoResults, adapters.value, behaviour)

\* a variant of generate_combined_animations without the fallback
GenerateCombinedAnimationsNoFallback(step_list, behaviour) ==
    LET adapter_cls == GetPrimaryAdapter(step_list, behaviour) IN
    IF adapter_cls.raised THEN Raises
    ELSE GenerateAnimations(adapter_cls.value, behaviour)

\* registry.py 93-103: generate_combined_animations
GenerateCombinedAnimations(step_list, behaviour) ==
    LET adapter_cls == GetPrimaryAdapter(step_list, behaviour) IN
    IF adapter_cls.raised THEN Raises
    ELSE LET animations == GenerateAnimations(adapter_cls.value, behaviour) IN
         IF animations.raised THEN GenerateAnimations("GenericAdapter", behaviour)
         ELSE animations

\* ------------------------------------------------ the registry at work
\* A registry is given a step list and one of its four methods is called.
\* How each specialised adapter class behaves on the step list is an input:
\* can_handle answers True or False or raises, generate_animations gives
\* commands or nothing or raises.  At most MaxMatches specialised adapters
\* answer other than False.  The generic adapter's generate_animations
\* gives commands or nothing; on an empty step list it gives nothing.
MaxMatches == 2

RegistrySteps == { <<>>, << [step_number |-> 1] >> }

InitRegistry ==
    /\ TracerIdle
    /\ execution_steps \in RegistrySteps
    /\ registry = [ _adapters |-> <<>> ]
    /\ call = [ name |-> "none" ] @@ Returns(<<>>)
    /\ \E S \in { T \in SUBSET Specialised : Cardinality(T) <= MaxMatches } :
       \E f \in [ S -> {"True", "raise"} ] :
       \E g \in [ { a \in S : f[a] = "True" } -> {"commands", "empty", "raise"} ] :
       \E generic \in IF execution_steps = <<>> THEN {"empty"}
                      ELSE {"commands", "empty"} :
          adapter =
            [ can_handle |-> [ a \in Specialised |->
                                 IF a \in S THEN f[a] ELSE "False" ],
              generate_animations |->
                [ a \in Adapters |->
                    IF a = "GenericAdapter" THEN generic
                    ELSE IF a \in DOMAIN g THEN g[a] ELSE "empty" ] ]

\* what every registry method does besides returning: detect_adapters
\* leaves the matches in self._adapters (registry.py 65)
RegistryCall(name, outcome) ==
    /\ call.name = "none"
    /\ call' = [ name |-> name ] @@ outcome
    /\ registry' = [ registry EXCEPT
                       !._adapters = DetectAdapters(execution_steps, adapter).value ]
    /\ UNCHANGED << execution_steps, adapter, tracer >>

DetectAdaptersCall ==
    RegistryCall("detect_adapters", DetectAdapters(execution_steps, adapter))

GetPrimaryAdapterCall ==
    RegistryCall("get_primary_adapter", GetPrimaryAdapter(execution_steps, adapter))

GenerateAllAnimationsCall ==
    RegistryCall("generate_all_animations",
                 GenerateAllAnimations(execution_steps, adapter))

GenerateCombinedAnimationsCall ==
    RegistryCall("generate_combined_animations",
                 GenerateCombinedAnimations(execution_steps, adapter))

NextRegistry ==
    \/ DetectAdaptersCall \/ GetPrimaryAdapterCall
    \/ GenerateAllAnimationsCall \/ GenerateCombinedAnimationsCall

SpecRegistry == InitRegistry /\ [][NextRegistry]_vars

\* the adapters whose can_handle answers True on the step list, and their
\* places in ADAPTER_PRIORITY
AnswersTrue == { a \in Adapters : CanHandle(a, execution_steps, adapter) = "True" }
Priority(a) == CHOOSE i \in DOMAIN ADAPTER_PRIORITY : ADAPTER_PRIORITY[i] = a
\* the adapters a registry call works with
Matched == IF AnswersTrue = {} THEN {"GenericAdapter"} ELSE AnswersTrue
SomeCanHandleRaises == \E a \in Specialised : adapter.can_handle[a] = "raise"

\* C13: for a non-empty step list detect_adapters returns normally a list
\* with at least one adapter, the generic one among them, whatever the
\* specialised adapters' can_handle answer or raise.
C13_RegistryTotalCoverage ==
    call.name = "detect_adapters" /\ execution_steps # <<>>
        => /\ ~call.raised
           /\ Len(call.value) >= 1
           /\ \E i \in DOMAIN call.value : call.value[i] = "GenericAdapter"

\* no specialised adapter answers True and one of them raises: only the
\* generic adapter is returned
C13_Witness ==
    /\ call.name = "detect_adapters" /\ execution_steps # <<>>
    /\ SomeCanHandleRaises
    /\ \A a \in Specialised : adapter.can_handle[a] # "True"
    /\ call.value = <<"GenericAdapter">>

\* C14: generate_all_animations returns normally even when a matched
\* adapter raises in can_handle or generate_animations; every adapter that
\* matched and did not raise has its commands in the returned map when it
\* built any and no entry when it built none, as without the failure; an
\* adapter that raised while generating has an empty entry; no other
\* adapter has an entry.
C14_FaultIsolation ==
    call.name = "generate_all_animations"
        => /\ ~call.raised
           /\ DOMAIN call.value \subseteq Matched
           /\ \A a \in Matched :
                CASE adapter.generate_animations[a] = "commands"
                         -> a \in DOMAIN call.value /\ call.value[a] = Animations(a)
                  [] adapter.generate_animations[a] = "empty"
                         -> a \notin DOMAIN call.value
                  [] OTHER -> a \in DOMAIN call.value /\ call.value[a] = <<>>

\* one adapter raised in detection, a matched one raised in generation, and
\* a later adapter's commands are in the map
C14_Witness ==
    /\ call.name = "generate_all_animations"
    /\ SomeCanHandleRaises
    /\ \E a \in Matched : adapter.generate_animations[a] = "raise"
    /\ \E a, b \in Matched :
          /\ Priority(a) < Priority(b)
          /\ adapter.generate_animations[a] = "raise"
          /\ b \in DOMAIN call.value /\ call.value[b] = Animations(b)

\* the first matched adapter in priority order
Primary == CHOOSE a \in Matched : \A b \in Matched : Priority(a) <= Priority(b)
SequenceOf(a) ==
    IF adapter.generate_animations[a] = "commands" THEN Animations(a) ELSE <<>>

C16_PriorityOrder ==
    /\ call.name = "detect_adapters" /\ AnswersTrue # {}
         => /\ { call.value[i] : i \in DOMAIN call.value } = AnswersTrue
            /\ \A i, j \in DOMAIN call.value :
                  i < j => Priority(call.value[i]) < Priority(call.value[j])
    /\ call.name = "get_primary_adapter"
         => ~call.raised /\ call.value = Primary /\ call.value = registry._adapters[1]

\* the heap adapter, another specialised adapter and the generic one matched
C16_Witness ==
    /\ call.name = "detect_adapters"
    /\ Len(call.value) >= 3
    /\ call.value[1] = "HeapAdapter"
    /\ call.value[Len(call.value)] = "GenericAdapter"

\* ------------------------------------------- can_handle: hash map or graph
\* Variable names are character sequences, so that `kw in var_name.lower()`
\* is the substring test it is.
Chars_g        == << "g" >>
Chars_adj_map  == << "a", "d", "j", "_", "m", "a", "p" >>
Chars_Cache    == << "C", "a", "c", "h", "e" >>

\* str.lower(), on the letters the names are written with
LowerChar(c) == IF c = "C" THEN "c" ELSE c
Lower(s) == [ i \in DOMAIN s |-> LowerChar(s[i]) ]

\* kw in s
Contains(kw, s) ==
    \E i \in 0..(Len(s) - Len(kw)) : SubSeq(s, i + 1, i + Len(kw)) = kw

\* hashmap_adapter.py 25-28
dict_keywords ==
    { << "h", "a", "s", "h" >>, << "m", "a", "p" >>, << "d", "i", "c", "t" >>,
      << "t", "a", "b", "l", "e" >>, << "c", "a", "c", "h", "e" >>,
      << "m", "e", "m", "o" >>, << "c", "o", "u", "n", "t", "e", "r" >>,
      << "f", "r", "e", "q" >>, << "c", "o", "u", "n", "t" >>,
      << "l", "o", "o", "k", "u", "p" >>,
      << "i", "n", "d", "e", "x", "_", "m", "a", "p" >> }

\* graph_adapter.py 31
graph_indicators ==
    { << "g", "r", "a", "p", "h" >>, << "a", "d", "j" >>,
      << "e", "d", "g", "e", "s" >>, << "n", "o", "d", "e", "s" >>,
      << "v", "e", "r", "t", "i", "c", "e", "s" >>, << "t", "r", "e", "e" >> }

\* A value as can_handle sees it: its type and, for a dict, the types of its
\* keys and values in insertion order.
PlainValue(type) == [ type |-> type, items |-> <<>> ]
DictValue(items) == [ type |-> "dict", items |-> items ]

\* all(isinstance(v, (list, set)) for v in var_value.values())
AllListsOrSets(var_value) ==
    \A i \in DOMAIN var_value.items : var_value.items[i].value \in {"list", "set"}

\* hashmap_adapter.py 31-44: what one variable of one step makes of the scan:
\* TRUE when can_handle returns True at it
HashMapAccepts(var_name, var_value) ==
    /\ var_value.type = "dict" /\ Len(var_value.items) > 0
    /\ var_value.items[1].key \in {"str", "int", "float", "bool"}
    /\ \/ ~AllListsOrSets(var_value)
       \/ \E kw \in dict_keywords : Contains(kw, Lower(var_name))

\* graph_adapter.py 35-48
GraphAccepts(var_name, var_value) ==
    \/ /\ \E indicator \in graph_indicators : Contains(indicator, Lower(var_name))
       /\ var_value.type \in {"dict", "list"}
    \/ /\ var_value.type = "dict"
       /\ AllListsOrSets(var_value)

\* the variables of all steps in the order the two loops visit them
RECURSIVE AllItems(_)
AllItems(step_list) ==
    IF step_list = <<>> THEN <<>>
    ELSE Head(step_list).variables_state \o AllItems(Tail(step_list))

\* the first element of a sequence, as a one-element sequence; <<>> if none
First(items) == IF items = <<>> THEN <<>> ELSE << items[1] >>

\* hashmap_adapter.py 21-45: HashMapAdapter.can_handle returns True at the
\* first variable the scan accepts; gives that variable, <<>> for False
HashMapCanHandle(step_list) ==
    IF step_list = <<>> THEN <<>>
    ELSE First(SelectSeq(AllItems(step_list),
                         LAMBDA item : HashMapAccepts(item.name, item.value)))

\* graph_adapter.py 24-50: GraphAdapter.can_handle
GraphCanHandle(step_list) ==
    IF step_list = <<>> THEN <<>>
    ELSE First(SelectSeq(AllItems(step_list),
                         LAMBDA item : GraphAccepts(item.name, item.value)))

\* --------------------------------------------- the two detectors at work
\* A step list of up to MaxVizSteps steps, each with one variable, is given
\* to HashMapAdapter().can_handle or to GraphAdapter().can_handle.
MaxVizSteps == 2
MaxEntries == 2

DictEntries == [ key : {"str", "tuple"}, value : {"int", "list", "set"} ]
VizValues ==
    { PlainValue("int"), PlainValue("list") }
        \cup { DictValue(items) : items \in SeqsUpTo(DictEntries, MaxEntries) }
VizNames == { Chars_g, Chars_adj_map, Chars_Cache }
VizStep(var_name, var_value) ==
    [ variables_state |-> << [ name |-> var_name, value |-> var_value ] >> ]

InitCanHandle ==
    /\ TracerIdle
    /\ execution_steps \in
          SeqsUpTo({ VizStep(n, v) : n \in VizNames, v \in VizValues }, MaxVizSteps)
    /\ adapter = <<>> /\ registry = <<>>
    /\ call = [ name |-> "none", value |-> FALSE, by |-> <<>> ]

\* HashMapAdapter().can_handle(execution_steps): the answer, the variable
\* that gave it, and the name the adapter tracks from then on
HashMapCanHandleCall ==
    /\ call.name = "none"
    /\ LET found == HashMapCanHandle(execution_steps) IN
       /\ call' = [ name |-> "HashMapAdapter.can_handle",
                    value |-> found # <<>>, by |-> found ]
       /\ adapter' = [ cls |-> "HashMapAdapter",
                       tracked_dict_name |->
                          IF found # <<>> THEN found[1].name ELSE <<>> ]
    /\ UNCHANGED << execution_steps, registry, tracer >>

GraphCanHandleCall ==
    /\ call.name = "none"
    /\ LET found == GraphCanHandle(execution_steps) IN
       /\ call' = [ name |-> "GraphAdapter.can_handle",
                    value |-> found # <<>>, by |-> found ]
       /\ adapter' = [ cls |-> "GraphAdapter",
                       tracked_graph_name |->
                          IF found # <<>> THEN found[1].name ELSE <<>> ]
    /\ UNCHANGED << execution_steps, registry, tracer >>

NextCanHandle == HashMapCanHandleCall \/ GraphCanHandleCall

SpecCanHandle == InitCanHandle /\ [][NextCanHandle]_vars

\* a dict all of whose values are lists
GraphShape(var_value) ==
    /\ var_value.type = "dict"
    /\ \A i \in DOMAIN var_value.items : var_value.items[i].value = "list"

\* C17: whatever the steps and the variable's name, the variable that makes
\* HashMapAdapter.can_handle return true is never a dict whose values are
\* all lists.
C17_GraphShapeNeverHashMap ==
    call.name = "HashMapAdapter.can_handle" /\ call.value
        => ~GraphShape(call.by[1].value)

\* ----------------------------------------------------------- ArrayAdapter
\* Python's None and a value that is not None
None == <<>>
Some(x) == << x >>

\* range(n) as a sequence: 0, 1, ..., n-1
Range(n) == [ i \in 1..n |-> i - 1 ]

\* base.py 186-193, 195-202, 204-209, 177-184
CreateSwapCommand(index1, index2, duration) ==
    AnimationCommand("SWAP", << index1, index2 >>, <<>>, duration, 0)
CreateCompareCommand(index1, index2, duration) ==
    AnimationCommand("COMPARE", << index1, index2 >>, <<>>, duration, 0)
CreatePauseCommand(duration) == AnimationCommand("PAUSE", <<>>, <<>>, duration, 0)
CreateHighlightCommand(indices, duration) ==
    AnimationCommand("HIGHLIGHT", indices, <<>>, duration, 0)

\* A mutation detect_array_changes reports; index2 is -1 where the code's
\* dict has the single key 'index'
Mutation(type, index1, index2) == [ type |-> type, index1 |-> index1, index2 |-> index2 ]

\* array_adapter.py 205-208: the positions (from 0) where the arrays differ
ChangedIndices(old_array, new_array) ==
    SelectSeq(Range(Len(old_array)), LAMBDA i : old_array[i + 1] # new_array[i + 1])

\* array_adapter.py 223-248: one changed element whose new value stood
\* elsewhere in the old array is taken for half of a swap
PartialSwap(old_array, new_array, changed_idx) ==
    LET new_val == new_array[changed_idx + 1]
        old_positions ==
            SelectSeq(Range(Len(old_array)),
                      LAMBDA i : old_array[i + 1] = new_val /\ i # changed_idx)
        swap_partner ==
            IF changed_idx > 0 /\ old_array[changed_idx] = new_val
            THEN changed_idx - 1
            ELSE IF changed_idx < Len(old_array) - 1
                    /\ old_array[changed_idx + 2] = new_val
            THEN changed_idx + 1
            ELSE old_positions[1]
    IN  IF old_positions = <<>> THEN <<>>
        ELSE << Mutation("swap", Min2(changed_idx, swap_partner),
                         IF changed_idx > swap_partner THEN changed_idx
                         ELSE swap_partner) >>

\* array_adapter.py 183-270: detect_array_changes
DetectArrayChanges(old_array, new_array) ==
    IF Len(old_array) # Len(new_array)
    THEN IF Len(new_array) > Len(old_array)
         THEN << Mutation("insert", Len(new_array) - 1, -1) >>
         ELSE << Mutation("remove", Len(old_array) - 1, -1) >>
    ELSE LET changed_indices == ChangedIndices(old_array, new_array)
             idx1 == changed_indices[1]
             idx2 == changed_indices[2]
         IN  IF /\ Len(changed_indices) = 2
                /\ old_array[idx1 + 1] = new_array[idx2 + 1]
                /\ old_array[idx2 + 1] = new_array[idx1 + 1]
             THEN << Mutation("swap", idx1, idx2) >>
             ELSE IF /\ Len(changed_indices) = 1
                     /\ PartialSwap(old_array, new_array, idx1) # <<>>
             THEN PartialSwap(old_array, new_array, idx1)
             ELSE IF Len(changed_indices) = 2
             THEN << Mutation("swap", idx1, idx2) >>
             ELSE [ k \in DOMAIN changed_indices |->
                      Mutation("value_change", changed_indices[k], -1) ]

\* array_adapter.py 74-114: the commands for the mutations of one step; no
\* branch handles 'insert' or 'remove'
RECURSIVE MutationCommands(_)
MutationCommands(array_mutations) ==
    IF array_mutations = <<>> THEN <<>>
    ELSE LET mutation == Head(array_mutations) IN
         ( CASE mutation.type = "swap"
                    -> << CreateSwapCommand(mutation.index1, mutation.index2, 500) >>
             [] mutation.type = "comparison"
                    -> << CreateCompareCommand(mutation.index1, mutation.index2, 300) >>
             [] mutation.type = "value_change"
                    -> << AnimationCommand("SET_VALUE", << mutation.index1 >>, <<>>, 400, 0) >>
             [] mutation.type = "access"
                    -> << CreateHighlightCommand(<< mutation.index1 >>, 200) >>
             [] OTHER -> <<>> )
         \o MutationCommands(Tail(array_mutations))

\* A source line, as is_comparison_code and extract_indices_from_code read
\* it: whether it holds one of > < >= <= == != and the texts the pattern
\* \w+\[([^\]]+)\] finds between brackets
SourceLine(empty, comparison, subscripts) ==
    [ empty |-> empty, comparison |-> comparison, subscripts |-> subscripts ]
\* ''
NoSource == SourceLine(TRUE, FALSE, <<>>)
\* 'arr[0], arr[1] = arr[1], arr[0]'
SwapSource == SourceLine(FALSE, FALSE, << "0", "1", "1", "0" >>)
\* 'if arr[j] > arr[j + 1]:'
CompareSource == SourceLine(FALSE, TRUE, << "j", "j + 1" >>)
\* 'for j in range(n):'
LoopSource == SourceLine(FALSE, FALSE, <<>>)

\* array_adapter.py 272-275
IsComparisonCode(source_code) == source_code.comparison

\* array_adapter.py 286-299: a literal is its value, i is 0, j is 1, a text
\* with j + 1 is 2, anything else gives no index
RECURSIVE ExtractIndices(_)
ExtractIndices(matches) ==
    IF matches = <<>> THEN <<>>
    ELSE LET match == Head(matches) IN
         ( CASE match = "0" -> << 0 >>
             [] match = "1" -> << 1 >>
             [] match = "i" -> << 0 >>
             [] match = "j" -> << 1 >>
             [] match = "j + 1" -> << 2 >>
             [] OTHER -> <<>> )
         \o ExtractIndices(Tail(matches))

\* array_adapter.py 277-301
ExtractIndicesFromCode(source_code) == ExtractIndices(source_code.subscripts)

\* array_adapter.py 117-131: the commands read off the step's source line
SourceCommands(step) ==
    IF step.source_code.empty THEN <<>>
    ELSE LET indices == ExtractIndicesFromCode(step.source_code) IN
         ( IF IsComparisonCode(step.source_code) /\ Len(indices) >= 2
           THEN << CreateCompareCommand(indices[1], indices[2], 250) >>
           ELSE <<>> )
         \o ( IF step.step_type = "LOOP_ITERATION"
              THEN << CreatePauseCommand(100) >> ELSE <<>> )

\* array_adapter.py 303-316
IsArraySorted(array) ==
    \/ array = None
    \/ Len(array[1]) <= 1
    \/ \A i \in 1..(Len(array[1]) - 1) : array[1][i] <= array[1][i + 1]

\* array_adapter.py 318-338: add_sorted_celebration, which reads the length
\* of the last entry of array_snapshot_timeline
AddSortedCelebration(animation_sequence, array_snapshot_timeline) ==
    IF array_snapshot_timeline # <<>>
       /\ array_snapshot_timeline[Len(array_snapshot_timeline)] # <<>>
    THEN LET final_array_length ==
                 Len(array_snapshot_timeline[Len(array_snapshot_timeline)])
         IN animation_sequence
              \o [ k \in 1..final_array_length |->
                     AnimationCommand("HIGHLIGHT", << k - 1 >>, <<>>, 100, (k - 1) * 50) ]
              \o << CreatePauseCommand(500) >>
    ELSE animation_sequence

\* array_adapter.py 54-135: the loop of generate_animations; gives the
\* commands and the last previous_array_state
RECURSIVE ArrayLoop(_, _, _, _)
ArrayLoop(animation_sequence, previous_array_state, step_list, tracked_array_name) ==
    IF step_list = <<>>
    THEN [ animation_sequence |-> animation_sequence,
           previous_array_state |-> previous_array_state ]
    ELSE LET step == Head(step_list)
             current_array_state == step.variables_state.value
         IN  IF tracked_array_name # Some(step.variables_state.name)
                \/ ~current_array_state.is_list
             THEN ArrayLoop(animation_sequence, previous_array_state,
                            Tail(step_list), tracked_array_name)
             ELSE ArrayLoop(
                    animation_sequence
                      \o ( IF previous_array_state # None
                           THEN MutationCommands(
                                    DetectArrayChanges(previous_array_state[1],
                                                       current_array_state.elems))
                           ELSE <<>> )
                      \o SourceCommands(step),
                    IF current_array_state.elems # <<>>
                    THEN Some(current_array_state.elems) ELSE None,
                    Tail(step_list), tracked_array_name)

\* array_adapter.py 43-144: generate_animations of an adapter with the given
\* tracked_array_name and array_snapshot_timeline
ArrayGenerateAnimations(step_list, tracked_array_name, array_snapshot_timeline) ==
    LET done == ArrayLoop(<<>>, None, step_list, tracked_array_name)
        optimized == OptimizeAnimations(done.animation_sequence)
    IN  IF IsArraySorted(done.previous_array_state)
        THEN AddSortedCelebration(optimized, array_snapshot_timeline)
        ELSE optimized

\* array_adapter.py 24-41: can_handle looks for the first list among the
\* variables; gives the name found, None if there is no list
RECURSIVE ArrayCanHandle(_)
ArrayCanHandle(step_list) ==
    IF step_list = <<>> THEN None
    ELSE IF Head(step_list).variables_state.value.is_list
    THEN Some(Head(step_list).variables_state.name)
    ELSE ArrayCanHandle(Tail(step_list))

\* --------------------------------------------- the array adapter at work
\* A new ArrayAdapter() is asked can_handle and then generate_animations, as
\* the registry does, on up to MaxArraySteps steps.  Each step holds the
\* variable arr, a list of up to MaxArrayLen numbers 1..MaxValue or a number.
MaxArraySteps == 2
MaxArrayLen == 3
MaxValue == 3

ListValue(elems) == [ is_list |-> TRUE, elems |-> elems ]
NotAList == [ is_list |-> FALSE, elems |-> <<>> ]
ArrayValues == { NotAList } \cup { ListValue(a) : a \in SeqsUpTo(1..MaxValue, MaxArrayLen) }
StepKinds ==
    { [ source_code |-> NoSource, step_type |-> "ASSIGNMENT" ],
      [ source_code |-> SwapSource, step_type |-> "ASSIGNMENT" ],
      [ source_code |-> CompareSource, step_type |-> "CONDITION" ],
      [ source_code |-> LoopSource, step_type |-> "LOOP_ITERATION" ] }
ArrayStep(kind, var_value) ==
    [ variables_state |-> [ name |-> "arr", value |-> var_value ],
      source_code |-> kind.source_code, step_type |-> kind.step_type ]

\* array_adapter.py 15-22: ArrayAdapter()
NewArrayAdapter ==
    [ cls |-> "ArrayAdapter", animation_sequence |-> <<>>,
      tracked_array_name |-> None, array_snapshot_timeline |-> <<>> ]

InitArray ==
    /\ TracerIdle
    /\ execution_steps \in
          SeqsUpTo({ ArrayStep(k, v) : k \in StepKinds, v \in ArrayValues }, MaxArraySteps)
    /\ adapter = NewArrayAdapter
    /\ registry = <<>>
    /\ call = [ name |-> "none", value |-> FALSE ]

ArrayCanHandleCall ==
    /\ call.name = "none"
    /\ LET found == IF execution_steps = <<>> THEN None
                    ELSE ArrayCanHandle(execution_steps) IN
       /\ adapter' = [ adapter EXCEPT !.tracked_array_name =
                          IF @ = None THEN found ELSE @ ]
       /\ call' = [ name |-> "can_handle", value |-> found # None ]
    /\ UNCHANGED << execution_steps, registry, tracer >>

ArrayGenerateAnimationsCall ==
    /\ call.name = "can_handle"
    /\ adapter' = [ adapter EXCEPT !.animation_sequence =
                      ArrayGenerateAnimations(execution_steps, adapter.tracked_array_name,
                                              adapter.array_snapshot_timeline) ]
    /\ call' = [ name |-> "generate_animations", value |-> call.value ]
    /\ UNCHANGED << execution_steps, registry, tracer >>

NextArray == ArrayCanHandleCall \/ ArrayGenerateAnimationsCall

SpecArray == InitArray /\ [][NextArray]_vars

\* the list snapshots of the tracked array, in step order
Snapshots ==
    LET lists == SelectSeq(execution_steps, LAMBDA s : s.variables_state.value.is_list)
    IN  [ k \in DOMAIN lists |-> lists[k].variables_state.value.elems ]

\* snapshots a and b differ in exactly the positions i < j (from 0), each
\* holding the other's old value
CleanSwap(a, b, i, j) ==
    /\ Len(a) = Len(b) /\ i < j /\ j < Len(a)
    /\ a[i + 1] # b[i + 1] /\ a[j + 1] # b[j + 1]
    /\ a[i + 1] = b[j + 1] /\ a[j + 1] = b[i + 1]
    /\ \A p \in 0..(Len(a) - 1) : p \notin {i, j} => a[p + 1] = b[p + 1]

\* C18: whenever two consecutive snapshots of the tracked array are a clean
\* swap of positions i and j, the returned commands hold a COMPARE on
\* [i, j] directly followed by a SWAP on [i, j].
C18_SwapEmitsCompareThenSwap ==
    call.name = "generate_animations"
        => \A k \in 1..(Len(Snapshots) - 1) :
           \A i, j \in 0..(MaxArrayLen - 1) :
              CleanSwap(Snapshots[k], Snapshots[k + 1], i, j)
                 => \E m \in 1..(Len(adapter.animation_sequence) - 1) :
                       /\ adapter.animation_sequence[m].command_type = "COMPARE"
                       /\ adapter.animation_sequence[m].target_indices = << i, j >>
                       /\ adapter.animation_sequence[m + 1].command_type = "SWAP"
                       /\ adapter.animation_sequence[m + 1].target_indices = << i, j >>

\* C19: when the last snapshot of the tracked array has n >= 1 elements in
\* ascending order, the returned commands end with n HIGHLIGHT commands on
\* the indices 0, 1, ..., n-1, each starting later than the one before.
C19_SortedCelebration ==
    call.name = "generate_animations" /\ Snapshots # <<>>
        => LET final == Snapshots[Len(Snapshots)]
               n == Len(final)
               cmds == adapter.animation_sequence
               first == Len(cmds) - n
           IN  n >= 1 /\ IsArraySorted(Some(final))
                 => /\ Len(cmds) >= n
                    /\ \A k \in 1..n :
                         /\ cmds[first + k].command_type = "HIGHLIGHT"
                         /\ cmds[first + k].target_indices = << k - 1 >>
                    /\ \A k \in 1..(n - 1) :
                         cmds[first + k].delay_ms < cmds[first + k + 1].delay_ms

\* ------------------------------------------------------------ HeapAdapter
Chars_heap == << "h", "e", "a", "p" >>

\* heap_adapter.py 26
heap_keywords ==
    { << "h", "e", "a", "p" >>, << "p", "q" >>,
      << "p", "r", "i", "o", "r", "i", "t", "y" >>, << "h", "e", "a", "p", "q" >>,
      << "m", "i", "n", "_", "h", "e", "a", "p" >>,
      << "m", "a", "x", "_", "h", "e", "a", "p" >> }

\* (i - 1) // 2
Parent(i) == (i - 1) \div 2

\* heap_adapter.py 129-138: _detect_heap_type, from the heap_type so far
DetectHeapType(heap_type, arr) ==
    IF Len(arr) < 2 THEN heap_type
    ELSE LET positions == 1..(Min2(Len(arr), 10) - 1)
             is_min == \A i \in positions : arr[Parent(i) + 1] <= arr[i + 1]
             is_max == \A i \in positions : arr[Parent(i) + 1] >= arr[i + 1]
         IN  IF is_min THEN "min" ELSE IF is_max THEN "max" ELSE "min"

\* heap_adapter.py 22-40: can_handle.  Gives the answer and the adapter's
\* tracked_heap_name and heap_type afterwards
RECURSIVE HeapCanHandle(_, _)
HeapCanHandle(self, step_list) ==
    IF step_list = <<>> THEN [ value |-> FALSE, self |-> self ]
    ELSE LET step == Head(step_list)
             var_name == step.variables_state.name
             var_value == step.variables_state.value
         IN  IF /\ \E kw \in heap_keywords : Contains(kw, Lower(var_name))
                /\ var_value.is_list /\ Len(var_value.elems) > 0
             THEN [ value |-> TRUE,
                    self |-> [ self EXCEPT
                       !.tracked_heap_name = IF @ = None THEN Some(var_name) ELSE @,
                       !.heap_type = DetectHeapType(@, var_value.elems) ] ]
             ELSE IF step.source_code.heapq
             THEN [ value |-> TRUE, self |-> self ]
             ELSE HeapCanHandle(self, Tail(step_list))

\* heap_adapter.py 146-154: the exchanged pairs of two arrays
RECURSIVE HeapSwaps(_, _, _)
HeapSwaps(old, new, i) ==
    IF i >= Min2(Len(old), Len(new)) THEN <<>>
    ELSE LET partners ==
                 SelectSeq(Range(Min2(Len(old), Len(new))),
                           LAMBDA j : /\ j > i
                                      /\ old[i + 1] = new[j + 1]
                                      /\ old[j + 1] = new[i + 1])
         IN  ( IF old[i + 1] # new[i + 1] /\ partners # <<>>
               THEN << [ op |-> "swap", idx1 |-> i, idx2 |-> partners[1] ] >>
               ELSE <<>> )
             \o HeapSwaps(old, new, i + 1)

\* heap_adapter.py 140-155: _detect_heap_ops
DetectHeapOps(old, new) ==
    IF Len(new) = Len(old) + 1 THEN << [ op |-> "insert", idx1 |-> -1, idx2 |-> -1 ] >>
    ELSE IF Len(new) = Len(old) - 1
    THEN << [ op |-> "extract", idx1 |-> -1, idx2 |-> -1 ] >>
    ELSE HeapSwaps(old, new, 0)

\* heap_adapter.py 170-183: _compute_sift_up_path.  The array is read as it
\* is: the element at idx is compared with its parent and idx moves up, no
\* value is moved
RECURSIVE ComputeSiftUpPath(_, _, _)
ComputeSiftUpPath(heap_type, heap_array, idx) ==
    IF idx <= 0 THEN <<>>
    ELSE LET parent == Parent(idx) IN
         IF \/ heap_type = "min" /\ heap_array[idx + 1] < heap_array[parent + 1]
            \/ heap_type = "max" /\ heap_array[idx + 1] > heap_array[parent + 1]
         THEN << << idx, parent >> >> \o ComputeSiftUpPath(heap_type, heap_array, parent)
         ELSE <<>>

\* heap_adapter.py 56-120: the commands for the mutations of one step
RECURSIVE HeapMutationCommands(_, _, _)
HeapMutationCommands(mutations, heap_type, current_heap) ==
    IF mutations = <<>> THEN <<>>
    ELSE LET mutation == Head(mutations)
             insert_pos == Len(current_heap) - 1
             sift_path == ComputeSiftUpPath(heap_type, current_heap, insert_pos)
         IN  ( CASE mutation.op = "insert"
                      -> << AnimationCommand("CREATE", << insert_pos >>, <<>>, 400, 0) >>
                         \o [ k \in DOMAIN sift_path |->
                                AnimationCommand("SWAP", sift_path[k], <<>>, 500,
                                                 (k - 1) * 200) ]
                 [] mutation.op = "extract"
                      -> << AnimationCommand("POP", << 0 >>, <<>>, 500, 0) >>
                 [] OTHER
                      -> << AnimationCommand("SWAP", << mutation.idx1, mutation.idx2 >>,
                                             <<>>, 450, 0) >> )
             \o HeapMutationCommands(Tail(mutations), heap_type, current_heap)

\* heap_adapter.py 46-124: the loop of generate_animations
RECURSIVE HeapLoop(_, _, _, _)
HeapLoop(animation_sequence, previous_heap, step_list, self) ==
    IF step_list = <<>> THEN animation_sequence
    ELSE LET step == Head(step_list)
             current_heap == step.variables_state.value
         IN  IF self.tracked_heap_name # Some(step.variables_state.name)
                \/ ~current_heap.is_list
             THEN HeapLoop(animation_sequence, previous_heap, Tail(step_list), self)
             ELSE HeapLoop(
                    animation_sequence
                      \o ( IF previous_heap # None
                           THEN HeapMutationCommands(
                                    DetectHeapOps(previous_heap[1], current_heap.elems),
                                    self.heap_type, current_heap.elems)
                           ELSE <<>> ),
                    Some(current_heap.elems), Tail(step_list), self)

\* heap_adapter.py 42-127: generate_animations
HeapGenerateAnimations(self, step_list) ==
    OptimizeAnimations(HeapLoop(<<>>, None, step_list, self))

\* ---------------------------------------------- the heap adapter at work
\* A new HeapAdapter() is asked can_handle and then generate_animations on up
\* to MaxHeapSteps steps.  Each step holds the variable heap, a list of up to
\* MaxHeapLen numbers 1..MaxValue or a number, and a source line that
\* mentions heapq or does not.
MaxHeapSteps == 2
MaxHeapLen == 4

HeapValues == { NotAList } \cup { ListValue(a) : a \in SeqsUpTo(1..MaxValue, MaxHeapLen) }
HeapStep(var_value, heapq) ==
    [ variables_state |-> [ name |-> Chars_heap, value |-> var_value ],
      source_code |-> [ heapq |-> heapq ] ]

\* heap_adapter.py 16-20: HeapAdapter()
NewHeapAdapter ==
    [ cls |-> "HeapAdapter", animation_sequence |-> <<>>,
      tracked_heap_name |-> None, heap_type |-> "min" ]

InitHeap ==
    /\ TracerIdle
    /\ execution_steps \in
          SeqsUpTo({ HeapStep(v, q) : v \in HeapValues, q \in BOOLEAN }, MaxHeapSteps)
    /\ adapter = NewHeapAdapter
    /\ registry = <<>>
    /\ call = [ name |-> "none", value |-> FALSE ]

HeapCanHandleCall ==
    /\ call.name = "none"
    /\ LET answer == HeapCanHandle(adapter, execution_steps) IN
       /\ adapter' = answer.self
       /\ call' = [ name |-> "can_handle", value |-> answer.value ]
    /\ UNCHANGED << execution_steps, registry, tracer >>

HeapGenerateAnimationsCall ==
    /\ call.name = "can_handle"
    /\ adapter' = [ adapter EXCEPT !.animation_sequence =
                      HeapGenerateAnimations(adapter, execution_steps) ]
    /\ call' = [ name |-> "generate_animations", value |-> call.value ]
    /\ UNCHANGED << execution_steps, registry, tracer >>

NextHeap == HeapCanHandleCall \/ HeapGenerateAnimationsCall

SpecHeap == InitHeap /\ [][NextHeap]_vars

\* a goes above b in a heap of this ordering
Above(heap_type, a, b) == IF heap_type = "max" THEN a >= b ELSE a <= b

ValidHeap(heap_type, arr) ==
    \A i \in 1..(Len(arr) - 1) : Above(heap_type, arr[Parent(i) + 1], arr[i + 1])

\* the array after the swaps of the given SWAP commands, in order
RECURSIVE ApplySwaps(_, _)
ApplySwaps(arr, swaps) ==
    IF swaps = <<>> THEN arr
    ELSE LET i == Head(swaps).target_indices[1] + 1
             j == Head(swaps).target_indices[2] + 1
         IN  ApplySwaps([ arr EXCEPT ![i] = arr[j], ![j] = arr[i] ], Tail(swaps))

\* the ancestors of position i, nearest first
RECURSIVE Ancestors(_)
Ancestors(i) == IF i <= 0 THEN <<>> ELSE << Parent(i) >> \o Ancestors(Parent(i))

\* how many elements on the way from the tail to the root are out of order
\* with the value at the tail
Violations(heap_type, arr) ==
    Len(SelectSeq(Ancestors(Len(arr) - 1),
                  LAMBDA p : ~Above(heap_type, arr[p + 1], arr[Len(arr)])))

\* C20: when the step list is a heap followed by the same heap with one
\* value appended, the SWAP commands the heap adapter returns, applied in
\* order to the second array, give a valid heap of the detected ordering,
\* and there are as many of them as there are heap-order violations on the
\* way from the new leaf to the root.
C20_SiftUpPathRestoresHeap ==
    /\ call.name = "generate_animations"
    /\ Len(execution_steps) = 2
    /\ adapter.tracked_heap_name # None
    /\ execution_steps[1].variables_state.value.is_list
    /\ execution_steps[2].variables_state.value.is_list
    => LET old == execution_steps[1].variables_state.value.elems
           new == execution_steps[2].variables_state.value.elems
           swaps == SelectSeq(adapter.animation_sequence,
                              LAMBDA cmd : cmd.command_type = "SWAP")
       IN  /\ Len(new) = Len(old) + 1
           /\ SubSeq(new, 1, Len(old)) = old
           /\ ValidHeap(adapter.heap_type, old)
           => /\ ValidHeap(adapter.heap_type, ApplySwaps(new, swaps))
              /\ Len(swaps) = Violations(adapter.heap_type, new)

\* ------------------------------------------- more on the array adapter
\* some returned command is of this type and aims at index p
Emitted(command_type, p) ==
    \E m \in DOMAIN adapter.animation_sequence :
        /\ adapter.animation_sequence[m].command_type = command_type
        /\ \E q \in DOMAIN adapter.animation_sequence[m].target_indices :
              adapter.animation_sequence[m].target_indices[q] = p

\* C21: the array adapter returns at least one command for every step it
\* was given, also for steps that leave the tracked array as it was, so the
\* commands are never fewer than the steps.
C21_CommandPerStep ==
    call.name = "generate_animations" /\ adapter.cls = "ArrayAdapter"
        => Len(adapter.animation_sequence) >= Len(execution_steps)

\* C25: when the tracked array is longer in a snapshot than in the one
\* before, a CREATE command is returned for each new index; when it is
\* shorter, a DELETE command is returned for each removed index.
C25_LengthChangeCommands ==
    call.name = "generate_animations" /\ adapter.cls = "ArrayAdapter"
        => \A k \in 1..(Len(Snapshots) - 1) :
              /\ \A p \in Len(Snapshots[k])..(Len(Snapshots[k + 1]) - 1) :
                    Emitted("CREATE", p)
              /\ \A p \in Len(Snapshots[k + 1])..(Len(Snapshots[k]) - 1) :
                    Emitted("DELETE", p)

\* --------------------------------------------------------- GenericAdapter
\* A variables_state dict: its (name, value) pairs in insertion order
DictKeys(d) == [ i \in DOMAIN d |-> d[i].name ]
HasKey(d, n) == \E i \in DOMAIN d : d[i].name = n
Lookup(d, n) == d[CHOOSE i \in DOMAIN d : d[i].name = n].value

\* base.py 131-175: detect_variable_changes for two steps
NewVariables(current_vars, previous_vars) ==
    SelectSeq(DictKeys(current_vars), LAMBDA n : ~HasKey(previous_vars, n))
DeletedVariables(current_vars, previous_vars) ==
    SelectSeq(DictKeys(previous_vars), LAMBDA n : ~HasKey(current_vars, n))
ModifiedVariables(current_vars, previous_vars) ==
    SelectSeq(DictKeys(current_vars),
              LAMBDA n : HasKey(previous_vars, n)
                         /\ Lookup(current_vars, n) # Lookup(previous_vars, n))

\* f'line_{step.line_number}', f'loop_{step.line_number}'
LineId(n) == IF n = 1 THEN "line_1" ELSE IF n = 2 THEN "line_2" ELSE "line_3"
LoopId(n) == IF n = 1 THEN "loop_1" ELSE IF n = 2 THEN "loop_2" ELSE "loop_3"

\* generic_adapter.py 31-80: the commands for the variables that appeared,
\* changed or went away since the previous step
VariableCommands(step, previous_step) ==
    [ k \in DOMAIN NewVariables(step.variables_state, previous_step.variables_state) |->
        AnimationCommand("CREATE", <<>>,
            << NewVariables(step.variables_state, previous_step.variables_state)[k] >>,
            350, 0) ]
    \o [ k \in DOMAIN ModifiedVariables(step.variables_state, previous_step.variables_state) |->
        AnimationCommand("SET_VALUE", <<>>,
            << ModifiedVariables(step.variables_state, previous_step.variables_state)[k] >>,
            DefaultDuration, 0) ]
    \o [ k \in DOMAIN DeletedVariables(step.variables_state, previous_step.variables_state) |->
        AnimationCommand("DELETE", <<>>,
            << DeletedVariables(step.variables_state, previous_step.variables_state)[k] >>,
            DefaultDuration, 0) ]

\* generic_adapter.py 83-164: the marker for the step's type, if it has one
ControlFlowCommands(step) ==
    CASE step.step_type = "CONDITION"
             -> << AnimationCommand("HIGHLIGHT", <<>>, << LineId(step.line_number) >>, 400, 0) >>
      [] step.step_type = "LOOP_START"
             -> << AnimationCommand("MARK", <<>>, << LoopId(step.line_number) >>, 300, 0) >>
      [] step.step_type = "LOOP_END"
             -> << AnimationCommand("UNMARK", <<>>, << LoopId(step.line_number) >>, 200, 0) >>
      [] step.step_type = "FUNCTION_CALL"
             -> << AnimationCommand("MARK", <<>>, << "func_f" >>, 400, 0) >>
      [] step.step_type = "FUNCTION_RETURN"
             -> << AnimationCommand("UNMARK", <<>>, << "func_return" >>, 350, 0) >>
      [] step.step_type = "PRINT"
             -> << AnimationCommand("LABEL", <<>>, << "console" >>, 300, 0) >>
      [] OTHER -> <<>>

\* generic_adapter.py 29-172: the loop of generate_animations
RECURSIVE GenericLoop(_, _, _)
GenericLoop(animation_sequence, previous_step, step_list) ==
    IF step_list = <<>> THEN animation_sequence
    ELSE LET step == Head(step_list) IN
         GenericLoop(
            animation_sequence
              \o ( IF previous_step # None
                   THEN VariableCommands(step, previous_step[1]) ELSE <<>> )
              \o ControlFlowCommands(step),
            Some(step), Tail(step_list))

\* generic_adapter.py 25-175: generate_animations
GenericGenerateAnimations(step_list) ==
    OptimizeAnimations(GenericLoop(<<>>, None, step_list))

\* ------------------------------------------- the generic adapter at work
\* A new GenericAdapter() is asked can_handle and then generate_animations
\* on up to MaxGenericSteps steps.  Each step has one of the step types and
\* a variables_state over the names x and y with values 1..MaxGenericValue.
MaxGenericSteps == 2
MaxGenericValue == 2

GenericStepTypes ==
    { "ASSIGNMENT", "CONDITION", "LOOP_START", "LOOP_END", "FUNCTION_CALL",
      "FUNCTION_RETURN", "PRINT" }
GenericDicts ==
    { d \in SeqsUpTo([ name : {"x", "y"}, value : 1..MaxGenericValue ], 2) :
        \A i, j \in DOMAIN d : i # j => d[i].name # d[j].name }
GenericStepLists ==
    { [ k \in DOMAIN l |-> [ line_number |-> k, step_type |-> l[k].step_type,
                             variables_state |-> l[k].variables_state ] ] :
        l \in SeqsUpTo([ step_type : GenericStepTypes, variables_state : GenericDicts ],
                       MaxGenericSteps) }

InitGeneric ==
    /\ TracerIdle
    /\ execution_steps \in GenericStepLists
    /\ adapter = [ cls |-> "GenericAdapter", animation_sequence |-> <<>> ]
    /\ registry = <<>>
    /\ call = [ name |-> "none", value |-> FALSE ]

\* generic_adapter.py 21-23
GenericCanHandleCall ==
    /\ call.name = "none"
    /\ call' = [ name |-> "can_handle",
                 value |-> CanHandle("GenericAdapter", execution_steps, <<>>) = "True" ]
    /\ UNCHANGED << execution_steps, adapter, registry, tracer >>

GenericGenerateAnimationsCall ==
    /\ call.name = "can_handle"
    /\ adapter' = [ adapter EXCEPT !.animation_sequence =
                      GenericGenerateAnimations(execution_steps) ]
    /\ call' = [ name |-> "generate_animations", value |-> call.value ]
    /\ UNCHANGED << execution_steps, registry, tracer >>

NextGeneric == GenericCanHandleCall \/ GenericGenerateAnimationsCall

SpecGeneric == InitGeneric /\ [][NextGeneric]_vars

\* C22: for every non-empty step list the generic adapter's can_handle is
\* true and its generate_animations returns at least one command.
C22_GenericAlwaysAnimates ==
    /\ call.name = "generate_animations" /\ adapter.cls = "GenericAdapter"
    /\ execution_steps # <<>>
    => call.value /\ adapter.animation_sequence # <<>>

\* ------------------------------------------------------ the heap-object table
\* C27: in every step, each HeapObject of heap_state holds the value the same
\* step's variables_state shows for a variable bound to that container: the
\* table follows the in-place mutations made since the container was tracked.
C27_HeapTableCurrent ==
    \A k \in 1..Len(steps) : \A a \in DOMAIN steps[k].heap_state :
        \E n \in DOMAIN steps[k].variables_state :
            steps[k].variables_state[n] = steps[k].heap_state[a].value

\* ============================================================================
\* Statements beyond the first five sources: print, annotated assignment,
\* pass / break / continue, and expression statements of tuple value.
\* ============================================================================
MaxBudget == 7        \* largest max_steps the programs 6..11 are traced with
                      \*   (their longest complete trace has 6 steps)

\* str(arg) on the values the programs print
Digits == << "0", "1", "2", "3", "4", "5", "6", "7", "8", "9" >>
RECURSIVE Decimal(_)
Decimal(n) == IF n < 10 THEN Digits[n + 1] ELSE Decimal(n \div 10) \o Digits[(n % 10) + 1]
Str(x) ==
    CASE x.t = "int"  -> IF x.v < 0 THEN "-" \o Decimal(-x.v) ELSE Decimal(x.v)
      [] x.t = "bool" -> IF x.v = 1 THEN "True" ELSE "False"
      [] x.t = "none" -> "None"
      [] x.t = "str"  -> x.s

\* tracer.py 578: output = ' '.join(str(arg) for arg in args)
PrintOutput(args) == Join(" ", [i \in 1..Len(args) |-> Str(args[i])])

\* tracer.py 579: context.stdout_buffer += output + '\n'.  The buffer is the
\* sequence of the pieces written to it; the text is their concatenation.
WriteStdoutOverwrites(buffer, output) == << output \o "\n" >>
WriteStdout(buffer, output) == Append(buffer, output \o "\n")

\* _handle_call on print(...), lines 571-585, reached from the value of an
\* assignment, an expression statement or a return statement: the text is
\* written to the buffer, the PRINT step is made, the call gives None
HandleCallPrint ==
    /\ AtStmt /\ ret.kind = "none" /\ Stmt.k \in {"Assign", "Expr", "Return"}
    /\ context.step_count < config.max_steps
    /\ IsPrintCall(Stmt.value)
    /\ LET c0   == IF Stmt.k = "Assign"
                   THEN [context EXCEPT !.current_line = Stmt.lineno] ELSE context
           args == [i \in 1..Len(Stmt.value.args) |->
                        EvalExpression(Stmt.value.args[i], NamespaceOf(c0), heap)]
           bad  == {i \in 1..Len(args) : IsExc(args[i])}
           output == PrintOutput(args)
           c1   == [c0 EXCEPT !.stdout_buffer = WriteStdout(@, output)]
           cs   == CreateStep(c1, heap, "PRINT", "", StrV(output), NoneV)
       IN  IF bad # {} THEN Throw(c0, heap, steps, args[CHOOSE i \in bad : TRUE].s)
           ELSE IF cs.raised THEN Throw(cs.context, heap, steps, "RuntimeError")
           ELSE Finish(cs.context, heap, Append(steps, cs.step), CallValue(NoneV), pystack)
    /\ UNCHANGED rest

\* AssignmentHandler.handle on ast.AnnAssign, lines 62-91: can_handle takes the
\* node, and handle has a branch for ast.Assign and one for ast.AugAssign only
ExecAnnAssign ==
    /\ Starts("AnnAssign")
    /\ Finish([context EXCEPT !.current_line = Stmt.lineno], heap, steps,
              StmtResult(NoneV), pystack)
    /\ UNCHANGED rest

\* _execute_node on a node no handler takes and no branch names (ast.Pass,
\* ast.Break, ast.Continue): line 437, "return None"
ExecuteNodeUnhandled ==
    /\ \/ Starts("Pass") \/ Starts("Break") \/ Starts("Continue")
    /\ Finish(context, heap, steps, StmtResult(NoneV), pystack)
    /\ UNCHANGED rest

\* every budget from 1 up: a budget may equal the length of the complete trace
ProgramConfigs == TracerConfig(1..MaxBudget, {1}, BOOLEAN, {0})

InitPrograms ==
    /\ config \in ProgramConfigs
    /\ sys_stdout = OrigStdout /\ sys_stderr = OrigStderr
    /\ env = [t \in Threads |-> IdleEnv]
    /\ steps = <<>> /\ source \in ProgramIds
    /\ context = NewContext(config)
    /\ heap = [a \in {} |-> <<>>]
    /\ pystack = <<>> /\ ret = NoRet /\ exc = "" /\ results = <<>>
    /\ execution_stopped = FALSE /\ start_time = 0 /\ monitor = "none" /\ now = 0
    /\ NoViz

\* the handlers the programs 6..11 reach
Statements ==
    \/ ExecuteTree \/ ExecuteNodeBudget \/ ModuleNext
    \/ ExecAssign \/ ExecAugAssign \/ ExecAnnAssign \/ ExecExpr \/ HandleCallPrint
    \/ ExecWhile \/ WhileTest \/ WhileNext \/ ExecuteNodeUnhandled

\* each program is traced on a tracer of its own
NextPrograms ==
    \/ Trace(source, TRUE)
    \/ Environment(1)
    \/ Statements
    \/ TraceReturn

SpecPrograms == InitPrograms /\ [][NextPrograms]_vars

\* the stdout snapshot a is a prefix of the stdout snapshot b
IsPrefix(a, b) == Len(a) <= Len(b) /\ SubSeq(b, 1, Len(a)) = a
\* the lines the PRINT steps of a step list rendered, in call order
PrintedLines(st) ==
    LET prints == SelectSeq(st, LAMBDA s : s.step_type = "PRINT")
    IN  [i \in 1..Len(prints) |-> prints[i].expression_value.s \o "\n"]

\* C23: a print call that completes appends its arguments, joined by single
\* spaces and followed by a newline, to the stdout buffer and emits one PRINT
\* step whose expression value is the rendered text; so the stdout snapshot of
\* every step of a trace is a prefix of the snapshot of every later step, and
\* the last step's snapshot holds every printed line in call order.
C23_PrintCapture ==
    [][ /\ AtStmt /\ ret.kind = "none" /\ Stmt.k \in {"Assign", "Expr", "Return"}
              /\ IsPrintCall(Stmt.value) /\ ret'.kind = "call"
           => LET rendered == Join(" ", [i \in 1..Len(Stmt.value.args) |->
                                  Str(EvalExpression(Stmt.value.args[i], NamespaceOf(context), heap))])
                  last == steps'[Len(steps')]
              IN  /\ context'.stdout_buffer = context.stdout_buffer \o << rendered \o "\n" >>
                  /\ Len(steps') = Len(steps) + 1 /\ SubSeq(steps', 1, Len(steps)) = steps
                  /\ last.step_type = "PRINT" /\ last.expression_value = StrV(rendered)
        /\ \A j, k \in 1..Len(steps') :
              j < k => IsPrefix(steps'[j].stdout_snapshot, steps'[k].stdout_snapshot)
        /\ steps' # <<>> => steps'[Len(steps')].stdout_snapshot = PrintedLines(steps')
      ]_vars

\* the trace of program 6 is complete: both print calls were captured
C23_Witness ==
    /\ source = 6 /\ results # <<>> /\ results[1].outcome = "ok"
    /\ PrintedLines(steps) = << "a 1\n", "2 b\n" >>
    /\ steps[Len(steps)].stdout_snapshot = << "a 1\n", "2 b\n" >>

\* C26: every assignment statement that completes (plain, augmented or
\* annotated, with a name as its target) binds the target in the current
\* namespace and emits exactly one ASSIGNMENT step whose variable snapshot
\* holds the new binding.
C26_AssignmentEmitsStep ==
    [][ /\ AtStmt /\ Stmt.k \in {"Assign", "AugAssign", "AnnAssign"}
        /\ Stmt.target.k = "Name"
        /\ ret.kind # "stmt" /\ ret'.kind = "stmt"
        => LET id == Stmt.target.id
               last == steps'[Len(steps')]
           IN  /\ id \in DOMAIN NamespaceOf(context')
               /\ Len(steps') = Len(steps) + 1
               /\ last.step_type = "ASSIGNMENT"
               /\ id \in DOMAIN last.variables_state
               /\ last.variables_state[id] = DeepCopy(NamespaceOf(context')[id], heap')
      ]_vars

\* a statement of the given kind, directly in the body of a while loop, has
\* just been executed
LoopBodyDid(kind) ==
    /\ Running /\ Top.k = "While" /\ Top.pc \in 1..Len(Top.body)
    /\ Stmt.k = kind /\ ret.kind = "stmt"

\* C28: once a break statement in the body of a loop has been executed, the
\* loop is left: no later statement of the body and no further iteration is
\* run; once a continue statement has been executed, the rest of the body is
\* skipped and the loop goes to its next test.
C28_BreakLeavesLoop ==
    [][ /\ LoopBodyDid("Break") => pystack' = Below \/ pystack' = <<>>
        /\ LoopBodyDid("Continue") => pystack' = SetPc(0) \/ pystack' = <<>>
      ]_vars

\* the statement kinds whose execution makes no step
StepLess == {"Pass", "Break", "Continue", "AnnAssign", "FunctionDef"}
\* only statements that make no step are left: the module body is at one of
\* them and no statement after it makes a step
OnlyStepLessLeft ==
    /\ Running /\ Len(pystack) = 1 /\ Top.k = "Module" /\ Top.pc \in 1..Len(Top.body)
    /\ \A j \in Top.pc..Len(Top.body) : Top.body[j].k \in StepLess

\* C29: a program whose complete execution makes at most max_steps steps is
\* traced to completion without a budget fault: no budget fault is raised
\* while only statements that make no step are left to run.
C29_NoFalseBudgetFault ==
    [][ OnlyStepLessLeft /\ context.step_count <= config.max_steps
            => exc' \notin {"ResourceError", "RuntimeError"} ]_vars

\* C30: in a trace that completes without a fault the statements of the
\* module are executed once each, in source order: the module body advances
\* by one statement at a time and is left only after its last statement,
\* whatever value an expression statement produced.
C30_ModuleRunsEveryStatement ==
    [][ Running /\ pystack[1].k = "Module"
        => /\ pystack' # <<>> => pystack'[1].pc \in {pystack[1].pc, pystack[1].pc + 1}
           /\ pystack' = <<>> /\ exc' = "" => pystack[1].pc = Len(pystack[1].body)
      ]_vars

\* ============================================================================
\* trace(): input validation and parsing
\* ============================================================================
\* tracer.py 267-268: `not code or not code.strip()` (the size limit of lines
\* 270-271 is far beyond the texts drawn here)
ValidateEmptyOnly(code) == code # <<>>
Validate(code) == code # <<>> /\ Strip(code) # <<>>

\* trace() raises before its context is made: the call is over
TraceRaises(i, cls) ==
    /\ source' = i
    /\ results' = Append(results, [source |-> i, fresh |-> TRUE, outcome |-> cls,
                                   exception_type |-> "", steps |-> <<>>])
    /\ env' = [env EXCEPT ![1].pc = "done"]
    /\ UNCHANGED << config, steps, context, heap, pystack, ret, exc,
                    sys_stdout, sys_stderr, watchdog, viz >>

\* ExecutionTracer.trace, lines 263-289, called once on a new tracer with the
\* text of source i: validation, parsing, then the ExecutionContext
TraceCode(i) ==
    /\ env[1].pc = "idle" /\ results = <<>>
    /\ \/ ~Validate(Code(i)) /\ TraceRaises(i, "ValidationError")
       \/ Validate(Code(i)) /\ ~AstParse(Code(i)).ok /\ TraceRaises(i, "ParseError")
       \/ Validate(Code(i)) /\ AstParse(Code(i)).ok /\ Trace(i, TRUE)

\* budgets no text of CodeTexts reaches
CodeConfigs == TracerConfig({MaxBudget - 1, MaxBudget}, {1}, BOOLEAN, {0})

InitValidation ==
    /\ config \in CodeConfigs
    /\ sys_stdout = OrigStdout /\ sys_stderr = OrigStderr
    /\ env = [t \in Threads |-> IdleEnv]
    /\ steps = <<>> /\ source = 12
    /\ context = NewContext(config)
    /\ heap = [a \in {} |-> <<>>]
    /\ pystack = <<>> /\ ret = NoRet /\ exc = "" /\ results = <<>>
    /\ execution_stopped = FALSE /\ start_time = 0 /\ monitor = "none" /\ now = 0
    /\ NoViz

NextValidation ==
    \/ \E i \in CodeIds : TraceCode(i)
    \/ Environment(1)
    \/ ExecuteTree \/ ExecExpr \/ ModuleNext
    \/ TraceReturn

SpecValidation == InitValidation /\ [][NextValidation]_vars

\* the trace() call never took sys.stdout / sys.stderr
NeverRedirected ==
    /\ sys_stdout = OrigStdout /\ sys_stderr = OrigStderr
    /\ env[1].old_stdout = NoStream /\ env[1].old_stderr = NoStream

====
